---- MODULE Spec2Model ----
(***************************************************************************)
(* Model of m203mylibrary: the hash-chained ledger of backtest runs        *)
(* (commodities_blockchain.py) and the simulated broker                    *)
(* (commodities_broker.py).                                                *)
(*                                                                         *)
(* Strings are sequences of one-character strings, so that Python's string *)
(* concatenation is sequence concatenation.  SHA-256 is modelled as an     *)
(* ideal (collision-free) digest: the digest of s is s between two marks   *)
(* that occur in no input alphabet.  Python floats are IEEE 754 binary64:  *)
(* a float is a sign, an odd significand of at most 53 bits and a binary   *)
(* exponent, and every operation returns the exact result rounded to the   *)
(* nearest float, ties to the even significand.  Significands are kept as  *)
(* sequences of 15-bit limbs.  Infinities, NaN, the sign of zero and the   *)
(* limits of the exponent are outside the model.                           *)
(***************************************************************************)
EXTENDS Integers, Sequences, FiniteSets, TLC

VARIABLES
    files,            \* the directory blockchain/: chain name -> pickled Blockchain, or NoFile
    blockchain,       \* the Blockchain object in memory (CommodityBroker.blockchain)
    call,             \* the last ledger operation and its outcome
    tampered,         \* the one field of the chain in memory changed behind the ledger's back
    cash,             \* CommodityBroker.cash
    positions,        \* CommodityBroker.positions: ticker -> CommodityPosition
    entry_prices,     \* CommodityBroker.entry_prices: ticker -> price
    transaction_log,  \* CommodityBroker.transaction_log, one record per row
    position_keys,    \* the keys of positions in the order the dict holds them
    trade,            \* the last broker operation: its arguments, the state it started
                      \* from and its outcome
    backtest,         \* the run of a backtest: the day it has reached and what its
                      \* steps have done
    query,            \* the last call of a function of the data module or of an
                      \* option, its arguments and what it returned or raised
    option_positions  \* ExtendedBroker.option_positions: name -> OptionPosition

ledger_vars == <<files, blockchain, call, tampered>>
broker_vars == <<cash, positions, entry_prices, transaction_log, position_keys, trade>>
vars == <<files, blockchain, call, tampered,
          cash, positions, entry_prices, transaction_log, position_keys, trade,
          backtest, query, option_positions>>
other_vars == <<query, option_positions>>

(***************************************************************************)
(* Bounds and input sets                                                   *)
(***************************************************************************)
MaxChain == 4
Timestamps == {3, 12}
ChainNames == {"run1"}
Entries == { <<  <<>>,          <<>>       >>,
             <<  <<"a">>,       <<"b">>    >>,
             <<  <<"a", "b">>,  <<>>       >> }
Payloads == {e[2] : e \in Entries} \cup {<<"x">>}

(***************************************************************************)
(* Strings and the digest                                                  *)
(***************************************************************************)
DigitChar(d) == CASE d = 0 -> "0" [] d = 1 -> "1" [] d = 2 -> "2" [] d = 3 -> "3"
                  [] d = 4 -> "4" [] d = 5 -> "5" [] d = 6 -> "6" [] d = 7 -> "7"
                  [] d = 8 -> "8" [] d = 9 -> "9"

RECURSIVE StrInt(_)
StrInt(n) == IF n < 10 THEN <<DigitChar(n)>>
             ELSE StrInt(n \div 10) \o <<DigitChar(n % 10)>>

\* str(timestamp) of a float holding a whole number of seconds: "12.0"
StrFloat(t) == StrInt(t) \o <<".", "0">>

\* hashlib.sha256(s.encode()).hexdigest(), as an ideal digest
sha256_hexdigest(s) == <<"[">> \o s \o <<"]">>

(***************************************************************************)
(* Block and Blockchain                                                    *)
(***************************************************************************)
calculate_hash(b) ==
    sha256_hexdigest(StrFloat(b.timestamp) \o b.name_backtest \o b.data \o b.previous_hash)

Block(name, data, previous_hash, ts) ==
    [name_backtest |-> name, data |-> data, previous_hash |-> previous_hash,
     timestamp |-> ts,
     hash |-> calculate_hash([name_backtest |-> name, data |-> data,
                              previous_hash |-> previous_hash, timestamp |-> ts])]

GenesisName == <<"G", "e", "n", "e", "s", "i", "s", " ", "B", "l", "o", "c", "k">>
Sentinel == <<"0">>

\* the genesis block left with Block's default previous_hash, ''
create_genesis_block_default(ts) == Block(GenesisName, <<>>, <<>>, ts)

create_genesis_block(ts) == Block(GenesisName, <<>>, Sentinel, ts)

NoObject == [name |-> "", chain |-> <<>>]
NoFile == <<>>

\* pickle.dump / pickle.load of a Blockchain: the object's fields, block by block
pickle_dump(obj) ==
    << obj.name,
       [i \in 1..Len(obj.chain) |->
           << obj.chain[i].name_backtest, obj.chain[i].data, obj.chain[i].previous_hash,
              obj.chain[i].timestamp, obj.chain[i].hash >>] >>

pickle_load(bytes) ==
    [name |-> bytes[1],
     chain |-> [i \in 1..Len(bytes[2]) |->
                  [name_backtest |-> bytes[2][i][1], data |-> bytes[2][i][2],
                   previous_hash |-> bytes[2][i][3], timestamp |-> bytes[2][i][4],
                   hash |-> bytes[2][i][5]]]]

\* Blockchain.store: the whole object is written over blockchain/<name>.pkl
store(obj, fs) == [fs EXCEPT ![obj.name] = pickle_dump(obj)]

\* Blockchain(name): __post_init__ appends the genesis block to the empty chain
Blockchain(name, ts) == [name |-> name, chain |-> <<create_genesis_block(ts)>>]

\* add_block linking the new block to the first block's hash instead of the last's
add_block_chain_first(chain, name, data, ts) ==
    Append(chain, Block(name, data, chain[1].hash, ts))

\* the chain of add_block: a block linked to the last block's stored hash
add_block_chain(chain, name, data, ts) ==
    Append(chain, Block(name, data, chain[Len(chain)].hash, ts))

\* Blockchain.is_valid: Python's range(1, len) is 2..Len here
is_valid(chain) ==
    \A i \in 2..Len(chain) :
        /\ chain[i].hash = calculate_hash(chain[i])
        /\ chain[i].previous_hash = chain[i - 1].hash

Bool(b) == IF b THEN "True" ELSE "False"

NoTamper == [index |-> 0, field |-> "none"]

(***************************************************************************)
(* Ledger operations                                                       *)
(***************************************************************************)
\* Blockchain(name): construct, then store() from __post_init__
new_Blockchain(name, ts) ==
    /\ blockchain' = Blockchain(name, ts)
    /\ files' = store(Blockchain(name, ts), files)
    /\ call' = [op |-> "Blockchain", name |-> name, result |-> "ok"]
    /\ UNCHANGED <<tampered, broker_vars, backtest, other_vars>>

\* CommodityBroker.initialize_blockchain(name)
initialize_blockchain(name, ts) ==
    /\ IF files[name] # NoFile
       THEN /\ blockchain' = pickle_load(files[name])
            /\ files' = files
            /\ call' = [op |-> "initialize_blockchain", name |-> name, result |-> "loaded"]
       ELSE /\ blockchain' = Blockchain(name, ts)
            /\ files' = store(Blockchain(name, ts), store(Blockchain(name, ts), files))
            /\ call' = [op |-> "initialize_blockchain", name |-> name, result |-> "created"]
    /\ UNCHANGED <<tampered, broker_vars, backtest, other_vars>>

\* Blockchain.add_block(name, data) on the object in memory
add_block(name, data, ts) ==
    /\ blockchain # NoObject
    /\ Len(blockchain.chain) < MaxChain
    /\ LET obj == [blockchain EXCEPT !.chain = add_block_chain(@, name, data, ts)]
       IN  /\ blockchain' = obj
           /\ files' = store(obj, files)
    /\ call' = [op |-> "add_block", name |-> blockchain.name, result |-> "ok"]
    /\ UNCHANGED <<tampered, broker_vars, backtest, other_vars>>

\* Blockchain.is_valid() on the object in memory
check_is_valid ==
    /\ blockchain # NoObject
    /\ call' = [op |-> "is_valid", name |-> blockchain.name,
                result |-> Bool(is_valid(blockchain.chain))]
    /\ UNCHANGED <<files, blockchain, tampered, broker_vars, backtest, other_vars>>

\* load_blockchain(name): open() raises when the file is absent
load_blockchain(name) ==
    /\ IF files[name] # NoFile
       THEN /\ blockchain' = pickle_load(files[name])
            /\ call' = [op |-> "load_blockchain", name |-> name, result |-> "ok"]
       ELSE /\ blockchain' = blockchain
            /\ call' = [op |-> "load_blockchain", name |-> name,
                        result |-> "FileNotFoundError"]
    /\ UNCHANGED <<files, tampered, broker_vars, backtest, other_vars>>

\* remove_blockchain(name): os.remove raises when the file is absent
remove_blockchain(name) ==
    /\ IF files[name] # NoFile
       THEN /\ files' = [files EXCEPT ![name] = NoFile]
            /\ call' = [op |-> "remove_blockchain", name |-> name, result |-> "ok"]
       ELSE /\ files' = files
            /\ call' = [op |-> "remove_blockchain", name |-> name,
                        result |-> "FileNotFoundError"]
    /\ UNCHANGED <<blockchain, tampered, broker_vars, backtest, other_vars>>

\* One stored field of one block of the chain in memory is overwritten with a
\* different value; no hash is recomputed.
tamper(i, field, value) ==
    /\ blockchain # NoObject
    /\ tampered = NoTamper
    /\ i \in 1..Len(blockchain.chain)
    /\ \/ /\ field = "data"
          /\ value \in Payloads
          /\ value # blockchain.chain[i].data
          /\ blockchain' = [blockchain EXCEPT !.chain[i].data = value]
       \/ /\ field = "previous_hash"
          /\ value \in {Sentinel, <<>>} \cup {blockchain.chain[j].hash : j \in 1..Len(blockchain.chain)}
          /\ value # blockchain.chain[i].previous_hash
          /\ blockchain' = [blockchain EXCEPT !.chain[i].previous_hash = value]
    /\ tampered' = [index |-> i, field |-> field]
    /\ call' = [op |-> "tamper", name |-> blockchain.name, result |-> "ok"]
    /\ UNCHANGED <<files, broker_vars, backtest, other_vars>>

(***************************************************************************)
(* Natural numbers of any size: the sequence of the limbs, base 2^15, the  *)
(* least significant first and the most significant not 0; <<>> is 0.      *)
(***************************************************************************)
LimbBits == 15
Base == 2^LimbBits

RECURSIVE BitLen(_)
BitLen(n) == IF n = 0 THEN 0 ELSE 1 + BitLen(n \div 2)

RECURSIVE TrailingZeros(_)
TrailingZeros(n) == IF n % 2 = 1 THEN 0 ELSE 1 + TrailingZeros(n \div 2)

RECURSIVE BStrip(_)
BStrip(a) == IF a = <<>> THEN a
             ELSE IF a[Len(a)] = 0 THEN BStrip(SubSeq(a, 1, Len(a) - 1)) ELSE a

RECURSIVE BFromNat(_)
BFromNat(n) == IF n = 0 THEN <<>> ELSE <<n % Base>> \o BFromNat(n \div Base)

RECURSIVE BToNat(_)
BToNat(a) == IF a = <<>> THEN 0 ELSE a[1] + Base * BToNat(Tail(a))

BBitLen(a) == IF a = <<>> THEN 0 ELSE LimbBits * (Len(a) - 1) + BitLen(a[Len(a)])

RECURSIVE BTrailingZeros(_)
BTrailingZeros(a) == IF a[1] = 0 THEN LimbBits + BTrailingZeros(Tail(a))
                     ELSE TrailingZeros(a[1])

RECURSIVE BCmpFrom(_, _, _)
BCmpFrom(a, b, i) ==
    IF i = 0 THEN 0
    ELSE IF a[i] < b[i] THEN 0 - 1
    ELSE IF a[i] > b[i] THEN 1
    ELSE BCmpFrom(a, b, i - 1)

\* -1, 0 or 1 as a < b, a = b or a > b
BCmp(a, b) == IF Len(a) < Len(b) THEN 0 - 1
              ELSE IF Len(a) > Len(b) THEN 1
              ELSE BCmpFrom(a, b, Len(a))

RECURSIVE BAddC(_, _, _)
BAddC(a, b, carry) ==
    IF a = <<>> /\ b = <<>> THEN (IF carry = 0 THEN <<>> ELSE <<carry>>)
    ELSE LET x == (IF a = <<>> THEN 0 ELSE a[1]) + (IF b = <<>> THEN 0 ELSE b[1]) + carry
         IN  <<x % Base>> \o BAddC(IF a = <<>> THEN a ELSE Tail(a),
                                   IF b = <<>> THEN b ELSE Tail(b), x \div Base)

BAdd(a, b) == BAddC(a, b, 0)

RECURSIVE BSubB(_, _, _)
BSubB(a, b, borrow) ==
    IF a = <<>> THEN <<>>
    ELSE LET x == a[1] - (IF b = <<>> THEN 0 ELSE b[1]) - borrow
         IN  <<IF x < 0 THEN x + Base ELSE x>> \o
             BSubB(Tail(a), IF b = <<>> THEN b ELSE Tail(b), IF x < 0 THEN 1 ELSE 0)

\* a - b, a >= b
BSub(a, b) == BStrip(BSubB(a, b, 0))

RECURSIVE BMulSmallC(_, _, _)
BMulSmallC(a, d, carry) ==
    IF a = <<>> THEN (IF carry = 0 THEN <<>> ELSE <<carry>>)
    ELSE LET x == a[1] * d + carry
         IN  <<x % Base>> \o BMulSmallC(Tail(a), d, x \div Base)

\* a * d, d < Base
BMulSmall(a, d) == IF d = 0 THEN <<>> ELSE BMulSmallC(a, d, 0)

RECURSIVE BMul(_, _)
BMul(a, b) ==
    IF a = <<>> \/ b = <<>> THEN <<>>
    ELSE IF Len(b) = 1 THEN BMulSmall(a, b[1])
    ELSE LET rest == BMul(a, Tail(b))
         IN  BAdd(BMulSmall(a, b[1]), IF rest = <<>> THEN rest ELSE <<0>> \o rest)

\* a * 2^k
BShl(a, k) == IF a = <<>> \/ k = 0 THEN a
              ELSE [i \in 1..(k \div LimbBits) |-> 0] \o BMulSmall(a, 2^(k % LimbBits))

\* quotient (limb by limb, not stripped) and remainder of a by d, 0 < d < Base
RECURSIVE BDivSmall(_, _)
BDivSmall(a, d) ==
    IF a = <<>> THEN [q |-> <<>>, r |-> 0]
    ELSE LET hi == BDivSmall(Tail(a), d)
             cur == hi.r * Base + a[1]
         IN  [q |-> <<cur \div d>> \o hi.q, r |-> cur % d]

\* a \div 2^k
BShr(a, k) ==
    IF k = 0 THEN a
    ELSE IF k \div LimbBits >= Len(a) THEN <<>>
    ELSE BStrip(BDivSmall(SubSeq(a, k \div LimbBits + 1, Len(a)), 2^(k % LimbBits)).q)

\* a % 2^k
BLowBits(a, k) ==
    IF k \div LimbBits >= Len(a) THEN a
    ELSE BStrip(SubSeq(a, 1, k \div LimbBits) \o
                <<a[k \div LimbBits + 1] % 2^(k % LimbBits)>>)

\* the largest d in lo..hi with b * d <= r
RECURSIVE BDigit(_, _, _, _)
BDigit(r, b, lo, hi) ==
    IF lo = hi THEN lo
    ELSE LET mid == (lo + hi + 1) \div 2
         IN  IF BCmp(BMulSmall(b, mid), r) <= 0 THEN BDigit(r, b, mid, hi)
             ELSE BDigit(r, b, lo, mid - 1)

\* long division, a limb of the quotient at a time
RECURSIVE BLongDiv(_, _)
BLongDiv(a, b) ==
    IF a = <<>> THEN [q |-> <<>>, r |-> <<>>]
    ELSE LET hi == BLongDiv(Tail(a), b)
             cur == BStrip(<<a[1]>> \o hi.r)
             d == BDigit(cur, b, 0, Base - 1)
         IN  [q |-> <<d>> \o hi.q, r |-> BSub(cur, BMulSmall(b, d))]

\* quotient and remainder of a by b, b # 0
BDivMod(a, b) ==
    IF Len(b) = 1
    THEN LET d == BDivSmall(a, b[1]) IN [q |-> BStrip(d.q), r |-> BFromNat(d.r)]
    ELSE LET d == BLongDiv(a, b) IN [q |-> BStrip(d.q), r |-> d.r]

(***************************************************************************)
(* Python floats.  The number (-1)^neg * m * 2^e, m odd, is the record     *)
(* [neg, m, e]; 0.0 is Zero.  A float has a significand m of at most       *)
(* MantissaBits bits.  The operations X... are those of the real numbers   *)
(* and return the exact result; the operations F... are Python's and       *)
(* return it rounded to the nearest float, ties to the even significand.   *)
(***************************************************************************)
MantissaBits == 53

Zero == [neg |-> FALSE, m |-> <<>>, e |-> 0]

\* the number m * 2^e with the sign neg, its significand made odd
Canon(neg, m, e) ==
    IF m = <<>> THEN Zero
    ELSE IF m[1] % 2 = 1 THEN [neg |-> neg, m |-> m, e |-> e]
    ELSE LET tz == BTrailingZeros(m)
         IN  [neg |-> neg, m |-> BShr(m, tz), e |-> e + tz]

\* the float nearest to m * 2^e, or to a number just above it when sticky
Round(neg, m, e, sticky) ==
    IF BBitLen(m) <= MantissaBits THEN Canon(neg, m, e)
    ELSE LET sh == BBitLen(m) - MantissaBits
             hi == BShr(m, sh)
             c == BCmp(BLowBits(m, sh), BShl(<<1>>, sh - 1))
             up == c > 0 \/ (c = 0 /\ (sticky \/ hi[1] % 2 = 1))
         IN  Canon(neg, IF up THEN BAdd(hi, <<1>>) ELSE hi, e + sh)

\* the float nearest to the number x: x itself when its significand is short
RoundF(x) == IF LimbBits * Len(x.m) <= MantissaBits THEN x
             ELSE Round(x.neg, x.m, x.e, FALSE)

\* float(k) of an int k, which has fewer bits than a significand holds
FromInt(k) == Canon(k < 0, BFromNat(IF k < 0 THEN 0 - k ELSE k), 0)

One == FromInt(1)

\* -x
FNeg(x) == IF x.m = <<>> THEN x ELSE [x EXCEPT !.neg = ~ @]

\* -1, 0 or 1 as |x| < |y|, |x| = |y| or |x| > |y|
MagCmp(x, y) ==
    IF x.m = <<>> \/ y.m = <<>>
    THEN (IF x.m = y.m THEN 0 ELSE IF x.m = <<>> THEN 0 - 1 ELSE 1)
    ELSE IF BBitLen(x.m) + x.e # BBitLen(y.m) + y.e
    THEN (IF BBitLen(x.m) + x.e < BBitLen(y.m) + y.e THEN 0 - 1 ELSE 1)
    ELSE LET e == IF x.e < y.e THEN x.e ELSE y.e
         IN  BCmp(BShl(x.m, x.e - e), BShl(y.m, y.e - e))

\* -1, 0 or 1 as x < y, x = y or x > y
FCmp(x, y) ==
    IF x.neg /\ ~ y.neg THEN 0 - 1
    ELSE IF ~ x.neg /\ y.neg THEN 1
    ELSE IF x.neg THEN MagCmp(y, x) ELSE MagCmp(x, y)

FLt(x, y) == FCmp(x, y) < 0                 \* x < y
FLe(x, y) == FCmp(x, y) <= 0                \* x <= y
FGt(x, y) == FCmp(x, y) > 0                 \* x > y
FGe(x, y) == FCmp(x, y) >= 0                \* x >= y

\* the sum of the numbers x and y
XAdd(x, y) ==
    IF x.m = <<>> THEN y
    ELSE IF y.m = <<>> THEN x
    ELSE LET e == IF x.e < y.e THEN x.e ELSE y.e
             a == BShl(x.m, x.e - e)
             b == BShl(y.m, y.e - e)
         IN  IF x.neg = y.neg THEN Canon(x.neg, BAdd(a, b), e)
             ELSE IF BCmp(a, b) >= 0 THEN Canon(x.neg, BSub(a, b), e)
             ELSE Canon(y.neg, BSub(b, a), e)

XSub(x, y) == XAdd(x, FNeg(y))

\* the product of the numbers x and y
XMul(x, y) == Canon(x.neg # y.neg, BMul(x.m, y.m), x.e + y.e)

\* floor(x / y) of the numbers x >= 0 and y > 0
XFloorDiv(x, y) ==
    LET e == IF x.e < y.e THEN x.e ELSE y.e
    IN  BToNat(BDivMod(BShl(x.m, x.e - e), BShl(y.m, y.e - e)).q)

FAdd(x, y) == RoundF(XAdd(x, y))            \* x + y
FSub(x, y) == RoundF(XSub(x, y))            \* x - y
FMul(x, y) == RoundF(XMul(x, y))            \* x * y

\* x / y, y # 0: the quotient of the significands to two bits more than a
\* float holds, the rest of the division kept as the sticky bit
FDiv(x, y) ==
    IF x.m = <<>> THEN Zero
    ELSE LET d == MantissaBits + 2 - BBitLen(x.m) + BBitLen(y.m)
             k == IF d > 0 THEN d ELSE 0
             qr == BDivMod(BShl(x.m, k), y.m)
         IN  Round(x.neg # y.neg, qr.q, x.e - y.e - k, qr.r # <<>>)

\* the float a decimal literal of the value a / b denotes, a and b ints, b > 0
Fl(a, b) == FDiv(FromInt(a), FromInt(b))

\* int(x): x truncated toward zero
Trunc(x) ==
    LET n == BToNat(IF x.e >= 0 THEN BShl(x.m, x.e) ELSE BShr(x.m, 0 - x.e))
    IN  IF x.neg THEN 0 - n ELSE n

\* int(x / y), y # 0
IntDiv(x, y) == Trunc(FDiv(x, y))

(***************************************************************************)
(* CommodityBroker                                                         *)
(***************************************************************************)
MaxLog == 3
Tickers == {"CL=F", "NG=F"}
Quantities == {0, 1, 2}
Prices == {Fl(5, 4), FromInt(3)}            \* 1.25 and 3.0
InitialCash == {Fl(17, 4)}                  \* 4.25
Dates == {1}
None == "None"
ExpiryDates == {None, "2024-12-20"}
\* the expiry_date arguments of a buy: None, '' and a date
BuyExpiryDates == ExpiryDates \cup {""}

CommodityPosition(ticker, quantity, entry_price, expiry_date) ==
    [ticker |-> ticker, quantity |-> quantity, entry_price |-> entry_price,
     expiry_date |-> expiry_date]

\* dict item assignment and deletion
SetItem(d, k, v) == [x \in DOMAIN d \cup {k} |-> IF x = k THEN v ELSE d[x]]
DelItem(d, k) == [x \in DOMAIN d \ {k} |-> d[x]]
EmptyDict == [x \in {} |-> 0]

\* the quantity held of a ticker; 0 when the ticker is no key of positions
Held(pos, ticker) == IF ticker \in DOMAIN pos THEN pos[ticker].quantity ELSE 0

\* a log that keeps only the latest row
log_transaction_latest(log, date, action, ticker, quantity, price, c) ==
    <<[Date |-> date, Action |-> action, Ticker |-> ticker,
       Quantity |-> quantity, Price |-> price, Cash |-> c]>>

\* log_transaction: the row appended, with the cash balance at that moment
log_transaction(log, date, action, ticker, quantity, price, c) ==
    Append(log, [Date |-> date, Action |-> action, Ticker |-> ticker,
                 Quantity |-> quantity, Price |-> price, Cash |-> c])

\* buy: total_cost = price * quantity
total_cost(price, quantity) == FMul(price, FromInt(quantity))

\* buy checking only that some cash is left
can_afford_any(c, cost) == FGt(c, Zero)

\* buy: if self.cash >= total_cost
can_afford(c, cost) == FGe(c, cost)

\* a buy that takes 1.0 more than the cost
cash_after_buy_fee(c, cost) == FSub(FSub(c, cost), One)

\* buy: self.cash -= total_cost
cash_after_buy(c, cost) == FSub(c, cost)

\* buy: new_entry_price, the division by new_quantity done (new_quantity # 0)
new_entry_price(position, price, quantity) ==
    FDiv(FAdd(FMul(position.entry_price, FromInt(position.quantity)),
              FMul(price, FromInt(quantity))),
         FromInt(position.quantity + quantity))

\* bool(expiry_date) of None or a str: None and '' are false
truthy(expiry_date) == expiry_date # None /\ expiry_date # ""

\* buy: the position after a buy that adds to a held one
bought_position(position, price, quantity, expiry_date) ==
    [position EXCEPT !.quantity = position.quantity + quantity,
                     !.entry_price = new_entry_price(position, price, quantity),
                     !.expiry_date = IF truthy(expiry_date) THEN expiry_date ELSE @]

\* sell checking only that the ticker is held
can_sell_held(pos, ticker, quantity) == ticker \in DOMAIN pos

\* sell: if ticker in self.positions and self.positions[ticker].quantity >= quantity
can_sell(pos, ticker, quantity) ==
    ticker \in DOMAIN pos /\ pos[ticker].quantity >= quantity

\* sell: self.cash += price * quantity
cash_after_sell(c, price, quantity) == FAdd(c, FMul(price, FromInt(quantity)))

\* sell keeping a position whose quantity has reached zero
sold_positions_kept(pos, ticker, quantity) ==
    [pos EXCEPT ![ticker].quantity = @ - quantity]

\* sell: the positions after position.quantity -= quantity and the deletion at zero
sold_positions(pos, ticker, quantity) ==
    IF pos[ticker].quantity - quantity = 0
    THEN DelItem(pos, ticker)
    ELSE [pos EXCEPT ![ticker].quantity = @ - quantity]

\* sell: entry_prices loses the ticker with the position
sold_entry_prices(ep, pos, ticker, quantity) ==
    IF pos[ticker].quantity - quantity = 0 /\ ticker \in DOMAIN ep
    THEN DelItem(ep, ticker)
    ELSE ep

Trade(op, ticker, quantity, price, outcome) ==
    [op |-> op, ticker |-> ticker, quantity |-> quantity, price |-> price,
     outcome |-> outcome, cash0 |-> cash, held0 |-> Held(positions, ticker),
     present0 |-> ticker \in DOMAIN positions]

\* the fields of the broker as one value: the self of the calls a method makes;
\* raised is the exception that has left a call, partial the partial buys an
\* execute_portfolio has attempted
Self ==
    [cash |-> cash, positions |-> positions, entry_prices |-> entry_prices,
     transaction_log |-> transaction_log, position_keys |-> position_keys,
     raised |-> None, partial |-> <<>>]

\* dict order: a new key goes last, a deleted key leaves the order
KeysAfterSet(keys, k) ==
    IF \E i \in 1..Len(keys) : keys[i] = k THEN keys ELSE Append(keys, k)
KeysAfterDel(keys, present) == SelectSeq(keys, LAMBDA k : k \in present)

\* self.buy(...): the broker after the call; raised names the exception that
\* left the call, and a broker that has raised runs no further statement
buy_call(s, ticker, quantity, price, date, expiry_date) ==
    IF s.raised # None THEN s
    ELSE IF ~ can_afford(s.cash, total_cost(price, quantity)) THEN s
    ELSE IF ticker \in DOMAIN s.positions
            /\ s.positions[ticker].quantity + quantity = 0
    THEN \* the division by new_quantity raises; nothing after it runs
         [s EXCEPT !.cash = cash_after_buy(@, total_cost(price, quantity)),
                   !.raised = "ZeroDivisionError"]
    ELSE LET c == cash_after_buy(s.cash, total_cost(price, quantity))
         IN  [s EXCEPT
                !.cash = c,
                !.positions =
                    IF ticker \in DOMAIN s.positions
                    THEN [@ EXCEPT ![ticker] =
                             bought_position(@, price, quantity, expiry_date)]
                    ELSE SetItem(@, ticker,
                             CommodityPosition(ticker, quantity, price, expiry_date)),
                !.position_keys = KeysAfterSet(@, ticker),
                !.transaction_log =
                    log_transaction(@, date, "BUY", ticker, quantity, price, c),
                !.entry_prices = SetItem(@, ticker, price)]

\* self.sell(...): the broker after the call
sell_call(s, ticker, quantity, price, date) ==
    IF s.raised # None THEN s
    ELSE IF ~ can_sell(s.positions, ticker, quantity) THEN s
    ELSE LET c == cash_after_sell(s.cash, price, quantity)
             pos == sold_positions(s.positions, ticker, quantity)
         IN  [s EXCEPT
                !.cash = c,
                !.positions = pos,
                !.position_keys = KeysAfterDel(@, DOMAIN pos),
                !.entry_prices =
                    sold_entry_prices(@, s.positions, ticker, quantity),
                !.transaction_log =
                    log_transaction(@, date, "SELL", ticker, quantity, price, c)]

\* the broker's fields become those of s
Becomes(s) ==
    /\ cash' = s.cash
    /\ positions' = s.positions
    /\ entry_prices' = s.entry_prices
    /\ transaction_log' = s.transaction_log
    /\ position_keys' = s.position_keys

\* CommodityBroker.buy(ticker, quantity, price, date, expiry_date)
buy(ticker, quantity, price, date, expiry_date) ==
    /\ Len(transaction_log) < MaxLog
    /\ \E s \in {buy_call(Self, ticker, quantity, price, date, expiry_date)} :
           /\ Becomes(s)
           /\ trade' = Trade("buy", ticker, quantity, price,
                             IF s.raised # None THEN s.raised
                             ELSE IF can_afford(cash, total_cost(price, quantity))
                                  THEN "done" ELSE "rejected")
    /\ UNCHANGED <<ledger_vars, backtest, other_vars>>

\* CommodityBroker.sell(ticker, quantity, price, date)
sell(ticker, quantity, price, date) ==
    /\ Len(transaction_log) < MaxLog
    /\ \E s \in {sell_call(Self, ticker, quantity, price, date)} :
           /\ Becomes(s)
           /\ trade' = Trade("sell", ticker, quantity, price,
                             IF can_sell(positions, ticker, quantity)
                             THEN "done" ELSE "rejected")
    /\ UNCHANGED <<ledger_vars, backtest, other_vars>>

(***************************************************************************)
(* CommodityBroker.get_portfolio_value and execute_portfolio               *)
(***************************************************************************)
MaxTrades == 2
Weights == {Zero, Fl(1, 2), One}             \* 0.0, 0.5 and 1.0
\* the price each ticker is quoted at: 2.5 and 3.0
Quote == [t \in Tickers |-> IF t = "CL=F" THEN Fl(5, 2) ELSE FromInt(3)]
\* 8.0 and 20.0
RebalanceCash == {FromInt(8), FromInt(20)}

\* the portfolio dicts as (ticker, weight) items in the order of the dict: the
\* weights of a portfolio sum to 1
Portfolios ==
    {<< <<t, One>> >> : t \in Tickers} \cup
    {<< <<tu[1], w>>, <<tu[2], FSub(One, w)>> >> :
        tu \in {y \in Tickers \X Tickers : y[1] # y[2]}, w \in Weights}

\* None where a price is expected: no float
NonePrice == [none |-> TRUE]

\* the prices dicts: a ticker may be no key, or a key with the value None
PriceMaps ==
    {pr \in UNION {[T -> {Quote[t] : t \in Tickers} \cup {NonePrice}] :
                      T \in SUBSET Tickers} :
        \A t \in DOMAIN pr : pr[t] = Quote[t] \/ (pr[t] = NonePrice /\ t = "CL=F")}

\* prices.get(tkr)
PriceGet(prices, tkr) == IF tkr \in DOMAIN prices THEN prices[tkr] ELSE NonePrice

\* get_portfolio_value: the loop over self.positions.items(), from the value v
RECURSIVE SumValue(_, _, _, _)
SumValue(v, keys, pos, market_prices) ==
    IF keys = <<>> THEN v
    ELSE LET tkr == Head(keys)
         IN  SumValue(IF tkr \in DOMAIN market_prices /\ market_prices[tkr] # NonePrice
                      THEN FAdd(v, FMul(FromInt(pos[tkr].quantity), market_prices[tkr]))
                      ELSE v,
                      Tail(keys), pos, market_prices)

\* a portfolio value that is the cash balance alone
get_portfolio_value_cash(s, market_prices) == s.cash

\* CommodityBroker.get_portfolio_value(market_prices)
get_portfolio_value(s, market_prices) ==
    SumValue(s.cash, s.position_keys, s.positions, market_prices)

\* CommodityBroker.get_cash_balance()
get_cash_balance(s) == s.cash

\* execute_portfolio: quantity_to_trade of one (tkr, weight) item, price quoted
quantity_to_trade(s, tkr, weight, prices) ==
    LET price == prices[tkr]
        total_value == get_portfolio_value(s, prices)
        target_value == FMul(total_value, weight)
        current_value == FMul(FromInt(Held(s.positions, tkr)), price)
        diff_value == FSub(target_value, current_value)
    IN  IntDiv(diff_value, price)

\* a first loop that sells a quoted holding of another ticker before it
\* looks at the target
sell_item_clearing(s, tkr, weight, prices, date) ==
    LET others == {o \in DOMAIN s.positions :
                      o # tkr /\ PriceGet(prices, o) # NonePrice}
        cleared == IF others = {} THEN s
                   ELSE LET o == CHOOSE x \in others : TRUE
                        IN  sell_call(s, o, s.positions[o].quantity, prices[o], date)
    IN  IF cleared.raised # None \/ PriceGet(prices, tkr) = NonePrice THEN cleared
        ELSE LET q == IntDiv(FSub(FMul(get_portfolio_value(cleared, prices), weight),
                                  FMul(FromInt(Held(cleared.positions, tkr)), prices[tkr])),
                             prices[tkr])
             IN  IF q < 0 THEN sell_call(cleared, tkr, 0 - q, prices[tkr], date)
                 ELSE cleared

\* a first loop that, for a target without a quoted price, sells the holding
\* at its entry price
sell_item_unquoted(s, tkr, weight, prices, date) ==
    IF s.raised # None THEN s
    ELSE IF PriceGet(prices, tkr) = NonePrice
    THEN IF tkr \in DOMAIN s.positions
         THEN sell_call(s, tkr, s.positions[tkr].quantity,
                        s.positions[tkr].entry_price, date)
         ELSE s
    ELSE LET q == quantity_to_trade(s, tkr, weight, prices)
         IN  IF q < 0 THEN sell_call(s, tkr, 0 - q, prices[tkr], date) ELSE s

\* execute_portfolio: one iteration of the first loop
sell_item(s, tkr, weight, prices, date) ==
    IF s.raised # None \/ PriceGet(prices, tkr) = NonePrice THEN s
    ELSE LET q == quantity_to_trade(s, tkr, weight, prices)
         IN  IF q < 0 THEN sell_call(s, tkr, 0 - q, prices[tkr], date) ELSE s

\* execute_portfolio: the else branch of the second loop, the partial buy
partial_buy(s, tkr, price, date) ==
    LET available_cash == get_cash_balance(s)
        q == IntDiv(available_cash, price)
        r == buy_call(s, tkr, q, price, date, None)
    IN  [r EXCEPT !.partial =
            Append(@, [ticker |-> tkr, price |-> price,
                       available_cash |-> available_cash, quantity |-> q,
                       held0 |-> Held(s.positions, tkr),
                       bought |-> r.transaction_log # s.transaction_log])]

\* execute_portfolio: one iteration of the second loop
buy_item(s, tkr, weight, prices, date) ==
    IF s.raised # None \/ PriceGet(prices, tkr) = NonePrice THEN s
    ELSE LET q == quantity_to_trade(s, tkr, weight, prices)
             price == prices[tkr]
         IN  IF q > 0
             THEN IF FLe(FMul(FromInt(q), price), get_cash_balance(s))
                  THEN buy_call(s, tkr, q, price, date, None)
                  ELSE partial_buy(s, tkr, price, date)
             ELSE s

\* execute_portfolio: "First, handle sells"
RECURSIVE sell_pass(_, _, _, _)
sell_pass(s, portfolio, prices, date) ==
    IF portfolio = <<>> THEN s
    ELSE sell_pass(sell_item(s, Head(portfolio)[1], Head(portfolio)[2], prices, date),
                   Tail(portfolio), prices, date)

\* execute_portfolio: "Next, handle buys"
RECURSIVE buy_pass(_, _, _, _)
buy_pass(s, portfolio, prices, date) ==
    IF portfolio = <<>> THEN s
    ELSE buy_pass(buy_item(s, Head(portfolio)[1], Head(portfolio)[2], prices, date),
                  Tail(portfolio), prices, date)

\* an execute_portfolio whose buys come first
execute_portfolio_buys_first(s, portfolio, prices, date) ==
    sell_pass(buy_pass(s, portfolio, prices, date), portfolio, prices, date)

\* self.execute_portfolio(portfolio, prices, date): the broker after the call
execute_portfolio_call(s, portfolio, prices, date) ==
    buy_pass(sell_pass(s, portfolio, prices, date), portfolio, prices, date)

\* what an execute_portfolio or a get_portfolio_value leaves in trade
Rebalance(op, portfolio, prices, outcome, result, partial) ==
    [op |-> op, portfolio |-> portfolio, prices |-> prices, outcome |-> outcome,
     result |-> result, partial |-> partial, log0 |-> Len(transaction_log)]

\* CommodityBroker.execute_portfolio(portfolio, prices, date)
execute_portfolio(portfolio, prices, date) ==
    /\ Len(transaction_log) < MaxLog
    /\ \E s \in {execute_portfolio_call(Self, portfolio, prices, date)} :
           /\ Becomes(s)
           /\ trade' = Rebalance("execute_portfolio", portfolio, prices,
                                 IF s.raised # None THEN s.raised ELSE "done",
                                 None, s.partial)
    /\ UNCHANGED <<ledger_vars, backtest, other_vars>>

\* a call of get_portfolio_value(market_prices), its return value kept
call_get_portfolio_value(market_prices) ==
    /\ trade' = Rebalance("get_portfolio_value", <<>>, market_prices, "done",
                          get_portfolio_value(Self, market_prices), <<>>)
    /\ UNCHANGED <<cash, positions, entry_prices, transaction_log, position_keys>>
    /\ UNCHANGED <<ledger_vars, backtest, other_vars>>

(***************************************************************************)
(* MultiAssetBacktest: the constructor, the dispatcher run_backtest and    *)
(* the two runs it chooses between.  The base class Backtest belongs to    *)
(* the library pybacktestchain: it gives the object its dates, its broker, *)
(* its risk model class and its column names.  CommoditiesInformation is   *)
(* the class of commodities_module.py: its fields are s, data_module,      *)
(* time_column, company_column, adj_close_column and expiry_column, and    *)
(* its methods slice_data and get_prices.                                  *)
(***************************************************************************)
\* the days initial_date and final_date are drawn from
Days == <<"2024-12-19", "2024-12-20", "2024-12-21">>
DateOrd(d) == CHOOSE i \in 1..Len(Days) : Days[i] = d

\* the values of asset_type a caller passes
AssetTypes == {"stocks", "commodities", "Commodities", "bonds"}

\* str.lower() on the values of AssetTypes
lower(asset_type) == IF asset_type = "Commodities" THEN "commodities" ELSE asset_type

\* the prices a caller passes to the broker
DayPrices == {Quote, [Quote EXCEPT !["CL=F"] = FromInt(2)]}

\* self.backtest_name
BacktestName == <<"b", "t">>

\* MultiAssetBacktest(initial_date, final_date, asset_type): the object after
\* __init__, or the ValueError of line 24.  commodity_column tells whether the
\* base class has given the object an attribute of that name; risk_model is
\* the class the base class has stored.  days are the days whose iteration of
\* the loop was entered and steps the steps of those days that have returned.
new_MultiAssetBacktest(initial_date, final_date, asset_type, commodity_column) ==
    [pc |-> IF lower(asset_type) \in {"stocks", "commodities"}
            THEN "initialized" ELSE "invalid",
     asset_type |-> lower(asset_type),
     initial |-> initial_date, final |-> final_date,
     commodity_column |-> commodity_column,
     risk_model |-> "class",
     error |-> IF lower(asset_type) \in {"stocks", "commodities"}
               THEN None ELSE "ValueError",
     step |-> IF lower(asset_type) \in {"stocks", "commodities"}
              THEN None ELSE "__init__",
     days |-> <<>>, steps |-> <<>>]

\* run_stock_backtest: super().run_backtest(), the run of the base class
run_stock_backtest_call(self) == [self EXCEPT !.pc = "delegated"]

\* run_commodities_backtest.  Line 48 replaces the risk model class by an
\* instance of it; lines 50-56 fetch the data; the call of lines 59-63 reads
\* self.commodity_column (AttributeError at line 62 when the object has no
\* such attribute) and passes it as the keyword commodity_column, which
\* CommoditiesInformation does not take (TypeError at line 59).  The exception
\* leaves the method: no iteration of the loop of lines 66-79 is entered and
\* lines 81-92 are not executed.
run_commodities_backtest_call(self) ==
    [self EXCEPT !.risk_model = "instance",
                 !.pc = "raised",
                 !.error = IF self.commodity_column THEN "TypeError"
                           ELSE "AttributeError",
                 !.step = "set_up"]

\* run_backtest: the run that asset_type selects
run_backtest_call(self) ==
    IF self.asset_type = "stocks" THEN run_stock_backtest_call(self)
    ELSE IF self.asset_type = "commodities" THEN run_commodities_backtest_call(self)
    ELSE self

\* the constructor is called
MultiAssetBacktest(initial_date, final_date, asset_type, commodity_column) ==
    /\ backtest.pc = "none"
    /\ backtest' = new_MultiAssetBacktest(initial_date, final_date, asset_type,
                                          commodity_column)
    /\ UNCHANGED <<ledger_vars, broker_vars, other_vars>>

\* bt.run_backtest()
run_backtest ==
    /\ backtest.pc = "initialized"
    /\ backtest' = run_backtest_call(backtest)
    /\ UNCHANGED <<ledger_vars, broker_vars, other_vars>>

\* bt.run_stock_backtest()
run_stock_backtest ==
    /\ backtest.pc = "initialized"
    /\ backtest' = run_stock_backtest_call(backtest)
    /\ UNCHANGED <<ledger_vars, broker_vars, other_vars>>

\* bt.run_commodities_backtest()
run_commodities_backtest ==
    /\ backtest.pc = "initialized"
    /\ backtest' = run_commodities_backtest_call(backtest)
    /\ UNCHANGED <<ledger_vars, broker_vars, other_vars>>

\* broker.sell_expired_contracts(t, prices), the call of line 78, on a
\* CommodityBroker: the class defines no attribute of that name, the lookup
\* raises AttributeError and the broker is left as it was
sell_expired_contracts(day, prices) ==
    /\ backtest.pc \notin {"none", "invalid"}
    /\ trade' = [date |-> day, prices |-> prices, before |-> positions,
                 rows0 |-> Len(transaction_log)] @@
                Trade("sell_expired_contracts", "", 0, 0, "AttributeError")
    /\ UNCHANGED <<cash, positions, entry_prices, transaction_log, position_keys>>
    /\ UNCHANGED <<ledger_vars, backtest, other_vars>>

(***************************************************************************)
(* CommoditiesInformation.slice_data and get_prices,                       *)
(* CommoditiesFirstTwoMoments.compute_portfolio.  Dates are day numbers,   *)
(* the window s a number of days.                                          *)
(***************************************************************************)
DataDays == 1..3
QueryDays == 1..5
Windows == {1, 2}
ExpiryDays == {2, 4}

\* the elements of a set of numbers as an ascending sequence
RECURSIVE Ascending(_)
Ascending(D) ==
    IF D = {} THEN <<>>
    ELSE LET m == CHOOSE x \in D : \A y \in D : x <= y
         IN  <<m>> \o Ascending(D \ {m})

\* the frames get_commodity_data can return for a ticker: one row per trading
\* day, in the order of the days, with the close of the day and the expiry of
\* the contract of that row
TickerFrames(tkr) ==
    {[i \in 1..Cardinality(D) |->
         [Date |-> Ascending(D)[i], ticker |-> tkr,
          Close |-> FromInt(Ascending(D)[i] + 1), expiry |-> e[Ascending(D)[i]]]] :
     e \in [DataDays -> ExpiryDays], D \in SUBSET DataDays}

\* get_commodities_data: the frames of the tickers, one after the other
DataFrames ==
    {f[1] \o f[2] : f \in (TickerFrames("CL=F") \X TickerFrames("NG=F")) \cup
                          (TickerFrames("NG=F") \X TickerFrames("CL=F"))}

\* slice_data: data[time] is read and converted first, and the frame without
\* a row is the frame without a column that get_commodities_data returns when
\* no ticker has data, on which data['Date'] raises KeyError; then
\* data[(data[time] >= t - s) & (data[time] < t)]
slice_data(data, s, t) ==
    IF data = <<>> THEN [raised |-> "KeyError", rows |-> <<>>]
    ELSE [raised |-> None,
          rows |-> SelectSeq(data, LAMBDA row : row.Date >= t - s /\ row.Date < t)]

\* groupby(company)[close].last().to_dict(): per ticker the close of its last
\* row in the slice
get_prices(data, s, t) ==
    LET d == slice_data(data, s, t).rows
        last(tkr) == CHOOSE i \in 1..Len(d) :
                        /\ d[i].ticker = tkr
                        /\ \A j \in (i + 1)..Len(d) : d[j].ticker # tkr
    IN  [raised |-> slice_data(data, s, t).raised,
         prices |-> [tkr \in {d[i].ticker : i \in 1..Len(d)} |-> d[last(tkr)].Close]]

\* the information sets and optimizer outcomes compute_portfolio can meet:
\* the companies, whether the expected returns are there, how minimize ends
Companies == {<<>>, <<"CL=F">>, <<"CL=F", "NG=F">>, <<"CL=F", "NG=F", "ZC=F">>}
InformationSets ==
    {[companies |-> c, has_mu |-> m] : c \in Companies, m \in BOOLEAN}
Optimizer == {"success", "not_converged", "raises"}

\* the weights minimize returns on success
Solution(n) == [i \in 1..n |-> IF i = 1 THEN One ELSE Zero]

\* a fallback that lets the failure through
equal_weight_raise(companies) == [raised |-> "Exception", portfolio |-> EmptyDict]

\* the except branch: the equal-weight portfolio, empty without companies
equal_weight(companies) ==
    [raised |-> None,
     portfolio |-> IF Len(companies) = 0 THEN EmptyDict
                   ELSE [k \in {companies[i] : i \in 1..Len(companies)} |->
                            FDiv(One, FromInt(Len(companies)))]]

\* compute_portfolio(t, information_set)
compute_portfolio(information_set, outcome) ==
    IF ~ information_set.has_mu \/ outcome # "success"
    THEN equal_weight(information_set.companies)
    ELSE [raised |-> None,
          portfolio |-> [k \in {information_set.companies[i] :
                                   i \in 1..Len(information_set.companies)} |->
                            Solution(Len(information_set.companies))[
                                CHOOSE i \in 1..Len(information_set.companies) :
                                    information_set.companies[i] = k]]]

\* the data module with its frame, before any query
Loaded(data) == [op |-> "none", data |-> data]

\* info.slice_data(t) with window s
call_slice_data(s, t) ==
    /\ query' = [op |-> "slice_data", data |-> query.data, s |-> s, t |-> t,
                 result |-> slice_data(query.data, s, t)]
    /\ UNCHANGED <<ledger_vars, broker_vars, backtest, option_positions>>

\* info.get_prices(t) with window s
call_get_prices(s, t) ==
    /\ query' = [op |-> "get_prices", data |-> query.data, s |-> s, t |-> t,
                 result |-> get_prices(query.data, s, t)]
    /\ UNCHANGED <<ledger_vars, broker_vars, backtest, option_positions>>

\* info.compute_portfolio(t, information_set)
call_compute_portfolio(information_set, outcome) ==
    /\ query' = [op |-> "compute_portfolio", data |-> query.data,
                 information_set |-> information_set, outcome |-> outcome,
                 result |-> compute_portfolio(information_set, outcome)]
    /\ UNCHANGED <<ledger_vars, broker_vars, backtest, option_positions>>

(***************************************************************************)
(* Option: construction, pricing and Greeks.  What decides whether a call  *)
(* raises is the sign of its parameters; a price or a Greek that is        *)
(* returned is the outcome "number".                                       *)
(***************************************************************************)
OptionTypes == {"Call", "Put", "Straddle"}
OptionValues == {0 - 1, 0, 1}
Methods == {"black_scholes", "delta", "gamma", "vega", "theta"}
Overridable == {"underlying_price", "time_to_maturity", "implied_volatility"}

\* the keyword arguments of a pricing call: any of the three, with any value
Overrides == UNION {[names -> OptionValues] : names \in SUBSET Overridable}

Raise(type, message) == [raised |-> type, message |-> message]

\* Option.__init__
Option(option_type, underlying_price, strike_price, interest_rate, dividend_yield, time_to_maturity, implied_volatility) ==
    IF option_type \notin {"Call", "Put"}
    THEN Raise("ValueError", "option_type must be 'Call' or 'Put'")
    ELSE IF \/ underlying_price <= 0
            \/ strike_price <= 0
            \/ time_to_maturity <= 0
            \/ implied_volatility <= 0
    THEN Raise("ValueError", "must be positive values")
    ELSE [raised |-> None, option_type |-> option_type,
          underlying_price |-> underlying_price, strike_price |-> strike_price,
          interest_rate |-> interest_rate, dividend_yield |-> dividend_yield,
          time_to_maturity |-> time_to_maturity,
          implied_volatility |-> implied_volatility]

\* an argument of a call: the override if given, else the field of the option
Effective(opt, kwargs, name) == IF name \in DOMAIN kwargs THEN kwargs[name] ELSE opt[name]

\* _calculate_d1_d2: math.log of S e^(-qT) / (K e^(-rT)), then math.sqrt(T),
\* then the division by sigma * sqrt(T)
calculate_d1_d2(S, K, T, sigma) ==
    IF S <= 0 THEN Raise("ValueError", "math domain error")
    ELSE IF T < 0 THEN Raise("ValueError", "math domain error")
    ELSE IF sigma = 0 \/ T = 0 THEN Raise("ZeroDivisionError", "float division by zero")
    ELSE [raised |-> None, message |-> "number"]

\* black_scholes, delta, gamma, vega, theta: the parameters are resolved the
\* same way, d1 and d2 computed, and the formula of the method evaluated
evaluate(method, opt, kwargs) ==
    calculate_d1_d2(Effective(opt, kwargs, "underlying_price"), opt.strike_price,
                    Effective(opt, kwargs, "time_to_maturity"),
                    Effective(opt, kwargs, "implied_volatility"))

\* Option(...), the interest rate and the dividend yield 0
new_Option(option_type, S, K, T, sigma) ==
    /\ query' = [op |-> "Option", option_type |-> option_type,
                 args |-> <<S, K, T, sigma>>,
                 option |-> Option(option_type, S, K, 0, 0, T, sigma)]
    /\ UNCHANGED <<ledger_vars, broker_vars, backtest, option_positions>>

\* option.<method>(**kwargs) on the option constructed last
call_method(method, kwargs) ==
    /\ query.op # "none"
    /\ query.option.raised = None
    /\ query' = [op |-> method, option |-> query.option, kwargs |-> kwargs,
                 result |-> evaluate(method, query.option, kwargs)]
    /\ UNCHANGED <<ledger_vars, broker_vars, backtest, option_positions>>

(***************************************************************************)
(* ExtendedBroker: buy_option and sell_option.  cash, transaction_log and  *)
(* log_transaction are those of the broker it extends.                     *)
(***************************************************************************)
OptionNames == {"C1", "P1"}
OptionDays == 1..3

\* the contracts traded: a call on 3 struck at 1 that lives one day and a put
\* on 1 struck at 2 that lives two, the volatility 1, the interest rate and
\* the dividend yield 0
OptionContracts ==
    {Option("Call", 3, 1, 0, 0, 1, 1), Option("Put", 1, 2, 0, 0, 2, 1)}

\* opt.black_scholes() of a contract of OptionContracts.  These contracts are
\* deep in the money with a day or two to run: d1 and d2 lie beyond 9 in
\* magnitude, norm.cdf of them is 1.0 as a float, both discount factors are
\* exp(-0.0) = 1.0, and the price S * 1.0 * 1.0 - K * 1.0 * 1.0 of the call
\* is 2.0, the price K * 1.0 * 1.0 - S * 1.0 * 1.0 of the put 1.0
black_scholes(opt) ==
    IF opt.option_type = "Call"
    THEN FSub(FromInt(opt.underlying_price), FromInt(opt.strike_price))
    ELSE FSub(FromInt(opt.strike_price), FromInt(opt.underlying_price))

OptionPosition(name, option, quantity, entry_price) ==
    [name |-> name, option |-> option, quantity |-> quantity, entry_price |-> entry_price]

\* the last call on the ExtendedBroker, with the state it started from
OptionTrade(op, name, quantity, premium, date, outcome) ==
    [op |-> op, name |-> name, quantity |-> quantity, premium |-> premium,
     date |-> date, outcome |-> outcome, cash0 |-> cash,
     positions0 |-> option_positions, log0 |-> transaction_log]

\* the values of a numpy.float64 that are not numbers of the float arithmetic
\* above: nan and the two infinities.  black_scholes() returns a numpy.float64
\* (norm.cdf does), so the average price of buy_option is computed in numpy's
\* arithmetic, where a division by 0 warns and yields nan or an infinity
NaN == [nan |-> TRUE]
Infinity(neg) == [inf |-> TRUE, neg |-> neg]

\* x * n, x a numpy.float64 and n an int
float64_mul(x, n) ==
    IF x = NaN THEN NaN
    ELSE IF x \in {Infinity(TRUE), Infinity(FALSE)}
    THEN IF n = 0 THEN NaN ELSE IF n > 0 THEN x ELSE Infinity(~ x.neg)
    ELSE FMul(x, FromInt(n))

\* x + y, both numpy.float64
float64_add(x, y) ==
    IF x = NaN \/ y = NaN THEN NaN
    ELSE IF x \in {Infinity(TRUE), Infinity(FALSE)}
    THEN IF y \in {Infinity(TRUE), Infinity(FALSE)} /\ y # x THEN NaN ELSE x
    ELSE IF y \in {Infinity(TRUE), Infinity(FALSE)} THEN y
    ELSE FAdd(x, y)

\* x / n, x a numpy.float64 and n an int: no ZeroDivisionError, 0/0 is nan
\* and a number other than 0 over 0 the infinity of its sign
float64_div(x, n) ==
    IF x = NaN THEN NaN
    ELSE IF x \in {Infinity(TRUE), Infinity(FALSE)}
    THEN IF n >= 0 THEN x ELSE Infinity(~ x.neg)
    ELSE IF n = 0 THEN (IF x = Zero THEN NaN ELSE Infinity(x.neg))
    ELSE FDiv(x, FromInt(n))

\* buy_option: avg_price of a position already held,
\* (entry_price * quantity held + premium_unit * quantity) / new_quantity
avg_price(existing_pos, premium_unit, quantity) ==
    float64_div(float64_add(float64_mul(existing_pos.entry_price, existing_pos.quantity),
                            float64_mul(premium_unit, quantity)),
                existing_pos.quantity + quantity)

\* a buy_option that takes any order, whatever the cash
option_affordable_any(c, option_cost) == TRUE

\* buy_option: if self.cash >= total_cost
option_affordable(c, option_cost) == FGe(c, option_cost)

\* ExtendedBroker.buy_option(name, opt, quantity, date)
buy_option(name, opt, quantity, date) ==
    LET premium_unit == black_scholes(opt)
        option_cost == total_cost(premium_unit, quantity)
        held == name \in DOMAIN option_positions
    IN  /\ Len(transaction_log) < MaxLog
        /\ IF option_affordable(cash, option_cost)
           THEN /\ cash' = FSub(cash, option_cost)
                /\ option_positions' =
                      IF held
                      THEN [option_positions EXCEPT
                               ![name].quantity = @ + quantity,
                               ![name].entry_price =
                                   avg_price(option_positions[name], premium_unit, quantity)]
                      ELSE SetItem(option_positions, name,
                                   OptionPosition(name, opt, quantity, premium_unit))
                /\ transaction_log' =
                      log_transaction(transaction_log, date, "BUY_OPTION", name,
                                      quantity, premium_unit, FSub(cash, option_cost))
                /\ trade' = OptionTrade("buy_option", name, quantity,
                                        premium_unit, date, "done")
           ELSE /\ UNCHANGED <<cash, option_positions, transaction_log>>
                /\ trade' = OptionTrade("buy_option", name, quantity, premium_unit,
                                        date, "rejected")
        /\ UNCHANGED <<ledger_vars, positions, entry_prices, position_keys, backtest, query>>

\* sell_option: the quantity is taken off, a position that reaches 0 is deleted
sold_option(pos, name, quantity) ==
    IF pos[name].quantity - quantity = 0 THEN DelItem(pos, name)
    ELSE [pos EXCEPT ![name].quantity = @ - quantity]

\* ExtendedBroker.sell_option(name, quantity, date)
sell_option(name, quantity, date) ==
    /\ Len(transaction_log) < MaxLog
    /\ IF name \notin DOMAIN option_positions
       THEN /\ UNCHANGED <<cash, option_positions, transaction_log>>
            /\ trade' = OptionTrade("sell_option", name, quantity, Zero, date, "rejected")
       ELSE IF option_positions[name].quantity < quantity
       THEN /\ UNCHANGED <<cash, option_positions, transaction_log>>
            /\ trade' = OptionTrade("sell_option", name, quantity, Zero, date, "rejected")
       ELSE LET premium_unit == black_scholes(option_positions[name].option)
                total_credit == FMul(premium_unit, FromInt(quantity))
            IN  /\ cash' = FAdd(cash, total_credit)
                /\ option_positions' = sold_option(option_positions, name, quantity)
                /\ transaction_log' =
                      log_transaction(transaction_log, date, "SELL_OPTION", name,
                                      quantity, premium_unit, FAdd(cash, total_credit))
                /\ trade' = OptionTrade("sell_option", name, quantity, premium_unit,
                                        date, "done")
    /\ UNCHANGED <<ledger_vars, positions, entry_prices, position_keys, backtest, query>>

(***************************************************************************)
(* get_futures_expiry, CBOT commodities.  A date is a record of year,      *)
(* month and day; its ordinal counts the days from the first day of        *)
(* BaseYear.                                                               *)
(***************************************************************************)
BaseYear == 2023
BuyYears == {2024, 2025}
Years == 2023..2027
RolloverDays == 20

IsLeap(y) == (y % 4 = 0 /\ y % 100 # 0) \/ y % 400 = 0
DaysInMonth(y, m) ==
    IF m = 2 THEN (IF IsLeap(y) THEN 29 ELSE 28)
    ELSE IF m \in {4, 6, 9, 11} THEN 30 ELSE 31

RECURSIVE DaysBeforeMonth(_, _)
DaysBeforeMonth(y, m) ==
    IF m = 1 THEN 0 ELSE DaysBeforeMonth(y, m - 1) + DaysInMonth(y, m - 1)

RECURSIVE DaysBeforeYear(_)
DaysBeforeYear(y) ==
    IF y = BaseYear THEN 0
    ELSE DaysBeforeYear(y - 1) + (IF IsLeap(y - 1) THEN 366 ELSE 365)

Date(y, m, d) == [year |-> y, month |-> m, day |-> d]
IsDate(x) == x.month \in 1..12 /\ x.day \in 1..DaysInMonth(x.year, x.month)
toordinal(x) == DaysBeforeYear(x.year) + DaysBeforeMonth(x.year, x.month) + x.day
fromordinal(o) ==
    LET y == CHOOSE yy \in Years : DaysBeforeYear(yy) < o /\ o <= DaysBeforeYear(yy + 1)
        n == o - DaysBeforeYear(y)
        m == CHOOSE mm \in 1..12 :
                DaysBeforeMonth(y, mm) < n /\ n <= DaysBeforeMonth(y, mm) + DaysInMonth(y, mm)
    IN  Date(y, m, n - DaysBeforeMonth(y, m))

\* datetime.weekday(): Monday is 0; the first day of BaseYear is a Sunday
weekday(o) == (o + 5) % 7
IsBusinessDay(o) == weekday(o) < 5

\* date - BDay(n), n >= 1: n times back to the business day before
RECURSIVE minus_BDay(_, _)
minus_BDay(o, n) ==
    IF n = 0 THEN o
    ELSE minus_BDay(CHOOSE b \in (o - 3)..(o - 1) :
                        IsBusinessDay(b) /\ \A c \in (b + 1)..(o - 1) : ~ IsBusinessDay(c),
                    n - 1)

\* two digits, four digits
Pad2(n) == IF n < 10 THEN <<"0">> \o StrInt(n) ELSE StrInt(n)
Pad4(n) == IF n < 1000 THEN <<"0">> \o StrInt(n) ELSE StrInt(n)

\* strftime('%Y-%m-%d')
strftime(x) == Pad4(x.year) \o <<"-">> \o Pad2(x.month) \o <<"-">> \o Pad2(x.day)

cbot_contract_months ==
    [t \in {"ZS=F", "ZW=F", "ZC=F", "CC=F"} |->
        IF t = "ZS=F" THEN <<1, 3, 5, 7, 8, 9, 11>> ELSE <<3, 5, 7, 9, 12>>]

\* datetime(year, front_month, 15) - BDay(1), as an ordinal
cbot_expiry(year, front_month) == minus_BDay(toordinal(Date(year, front_month, 15)), 1)

\* a rollover that starts the day after the rollover date
in_rollover_after(buy_ordinal, expiry) == buy_ordinal > minus_BDay(expiry, RolloverDays)

\* buy_date >= rollover_date, the rollover date 20 business days before expiry
in_rollover(buy_ordinal, expiry) == buy_ordinal >= minus_BDay(expiry, RolloverDays)

energy_tickers == {"CL=F", "BZ=F", "NG=F", "HO=F"}

\* datetime.strptime(s, '%Y-%m-%d') of a string of that format
DigitValue(c) == CHOOSE d \in 0..9 : DigitChar(d) = c
strptime(s) ==
    Date(1000 * DigitValue(s[1]) + 100 * DigitValue(s[2]) + 10 * DigitValue(s[3])
             + DigitValue(s[4]),
         10 * DigitValue(s[6]) + DigitValue(s[7]),
         10 * DigitValue(s[9]) + DigitValue(s[10]))

\* the tickers a caller passes: the eight supported ones and gold, which the
\* data provider quotes and the expiry rules do not know
ExpiryTickers == DOMAIN cbot_contract_months \cup energy_tickers \cup {"GC=F"}

\* potential_expiry of an energy ticker for a delivery month, as an ordinal
potential_expiry(ticker, year, delivery_month) ==
    LET expiry_year == IF delivery_month > 1 THEN year ELSE year - 1
        expiry_month == IF delivery_month > 1 THEN delivery_month - 1 ELSE 12
    IN  CASE ticker = "CL=F" -> minus_BDay(toordinal(Date(expiry_year, expiry_month, 25)), 3)
          [] ticker = "BZ=F" -> minus_BDay(toordinal(Date(year, delivery_month, 1)), 2)
          [] ticker = "NG=F" -> minus_BDay(toordinal(Date(year, delivery_month, 1)), 3)
          [] ticker = "HO=F" -> minus_BDay(toordinal(Date(expiry_year, expiry_month, 1)), 1)

\* a roll that also leaves an expiry falling on the purchase date
expiry_before_or_on(expiry, buy_ordinal) == expiry <= buy_ordinal

\* potential_expiry < buy_date
expiry_before(expiry, buy_ordinal) == expiry < buy_ordinal

\* the expiry of an energy ticker, as an ordinal: the next delivery month,
\* rolled once when its expiry is before the purchase
energy_expiry(buy_date, ticker) ==
    LET delivery_month == (buy_date.month % 12) + 1
        year == buy_date.year + (IF delivery_month = 1 THEN 1 ELSE 0)
        first == potential_expiry(ticker, year, delivery_month)
        rolled_month == (delivery_month % 12) + 1
        rolled_year == year + (IF rolled_month = 1 THEN 1 ELSE 0)
    IN  IF expiry_before(first, toordinal(buy_date))
        THEN potential_expiry(ticker, rolled_year, rolled_month)
        ELSE first

\* the expiry of a CBOT ticker, as an ordinal
cbot_futures_expiry(buy_date, ticker) ==
    LET contract_months == cbot_contract_months[ticker]
        later == {i \in 1..Len(contract_months) : contract_months[i] >= buy_date.month}
        first == IF later = {} THEN 1 ELSE CHOOSE i \in later : \A j \in later : i <= j
        year == IF later = {} THEN buy_date.year + 1 ELSE buy_date.year
        expiry_date == cbot_expiry(year, contract_months[first])
        next_index == first + 1
    IN  IF in_rollover(toordinal(buy_date), expiry_date)
        THEN IF next_index > Len(contract_months)
             THEN cbot_expiry(year + 1, contract_months[1])
             ELSE cbot_expiry(year, contract_months[next_index])
        ELSE expiry_date

\* f"Error calculating expiry date: {e}", the string the except clause returns
ErrorString(message) == <<"Error calculating expiry date: ", message>>

\* get_futures_expiry(buy_date, ticker): a date string, or for a ticker of
\* neither family the error string, returned as any other value
get_futures_expiry(buy_date, ticker) ==
    IF ticker \in DOMAIN cbot_contract_months
    THEN strftime(fromordinal(cbot_futures_expiry(buy_date, ticker)))
    ELSE IF ticker \in energy_tickers
         THEN strftime(fromordinal(energy_expiry(buy_date, ticker)))
         ELSE ErrorString("Unsupported ticker")

\* the contract months of get_cbot_expiry, by commodity
commodity_contract_months ==
    [c \in {"soybean", "wheat", "corn", "cocoa"} |->
        IF c = "soybean" THEN <<1, 3, 5, 7, 8, 9, 11>> ELSE <<3, 5, 7, 9, 12>>]

\* while expiry_date.weekday() in (5, 6): expiry_date -= timedelta(days=1)
RECURSIVE back_to_weekday(_)
back_to_weekday(o) == IF weekday(o) \in {5, 6} THEN back_to_weekday(o - 1) ELSE o

\* a 15th that is itself taken when it is a weekday
manual_expiry_on_15(year, front_month) ==
    back_to_weekday(toordinal(Date(year, front_month, 15)))

\* datetime(year, front_month, 15) - timedelta(days=1), then back to a weekday
manual_expiry(year, front_month) ==
    back_to_weekday(toordinal(Date(year, front_month, 15)) - 1)

\* while business_days < 20: one day back, counted when it is a weekday
RECURSIVE manual_rollover_date(_, _)
manual_rollover_date(o, business_days) ==
    IF business_days < 20
    THEN manual_rollover_date(o - 1, IF weekday(o - 1) < 5 THEN business_days + 1
                                     ELSE business_days)
    ELSE o

\* get_cbot_expiry(buy_date, commodity)
get_cbot_expiry(buy_date, commodity) ==
    IF commodity \notin DOMAIN commodity_contract_months
    THEN ErrorString("Unsupported commodity")
    ELSE
    LET contract_months == commodity_contract_months[commodity]
        later == {i \in 1..Len(contract_months) : contract_months[i] >= buy_date.month}
        first == IF later = {} THEN 1 ELSE CHOOSE i \in later : \A j \in later : i <= j
        year == IF later = {} THEN buy_date.year + 1 ELSE buy_date.year
        expiry_date == manual_expiry(year, contract_months[first])
        rollover_date == manual_rollover_date(expiry_date, 0)
        next_index == first + 1
    IN  IF toordinal(buy_date) >= rollover_date
        THEN IF next_index > Len(contract_months)
             THEN strftime(fromordinal(manual_expiry(year + 1, contract_months[1])))
             ELSE strftime(fromordinal(manual_expiry(year, contract_months[next_index])))
        ELSE strftime(fromordinal(expiry_date))

\* the arguments of a call that is still to be made, buy_date as strptime
\* reads it
Arguments(buy_date, ticker) == [op |-> "none", buy_date |-> buy_date, ticker |-> ticker]

\* get_futures_expiry(buy_date, ticker)
call_get_futures_expiry ==
    /\ query.op = "none"
    /\ query' = [op |-> "get_futures_expiry", buy_date |-> query.buy_date,
                 ticker |-> query.ticker, outcome |-> "returned",
                 result |-> get_futures_expiry(query.buy_date, query.ticker)]
    /\ UNCHANGED <<ledger_vars, broker_vars, backtest, option_positions>>

\* get_cbot_expiry(buy_date, commodity) on the purchase date of the call to
\* get_futures_expiry before it
call_get_cbot_expiry(commodity) ==
    /\ query.op = "get_futures_expiry"
    /\ query' = [op |-> "get_cbot_expiry", buy_date |-> query.buy_date,
                 ticker |-> query.ticker, result |-> query.result,
                 commodity |-> commodity,
                 manual |-> get_cbot_expiry(query.buy_date, commodity)]
    /\ UNCHANGED <<ledger_vars, broker_vars, backtest, option_positions>>

\* get_commodity_data(ticker, start_date, end_date) over a history of one
\* row, the row's Date the purchase date: the frame with its 'futures expiry'
\* column
call_get_commodity_data ==
    /\ query.op = "none"
    /\ query' = [op |-> "get_commodity_data", buy_date |-> query.buy_date,
                 ticker |-> query.ticker,
                 df |-> <<[Date |-> query.buy_date, ticker |-> query.ticker,
                           futures_expiry |->
                               get_futures_expiry(query.buy_date, query.ticker)]>>]
    /\ UNCHANGED <<ledger_vars, broker_vars, backtest, option_positions>>

(***************************************************************************)
(* Specifications                                                          *)
(***************************************************************************)
NoTrade == [op |-> "none", ticker |-> "", quantity |-> 0, price |-> 0,
            outcome |-> "none", cash0 |-> 0, held0 |-> 0, present0 |-> FALSE]
NoCall == [op |-> "none", name |-> "", result |-> "none"]
NoBacktest == [pc |-> "none"]
NoQuery == [op |-> "none"]

\* no function of the data module or of an option called, no option held
NoOther == query = NoQuery /\ option_positions = EmptyDict

\* a broker that is never used, beside the ledger
IdleBroker ==
    /\ NoOther
    /\ cash = 0
    /\ positions = EmptyDict
    /\ entry_prices = EmptyDict
    /\ transaction_log = <<>>
    /\ position_keys = <<>>
    /\ trade = NoTrade
    /\ backtest = NoBacktest

\* no ledger, beside the broker
NoLedger ==
    /\ files = [n \in ChainNames |-> NoFile]
    /\ blockchain = NoObject
    /\ call = NoCall
    /\ tampered = NoTamper

\* the directory blockchain/ is empty and no Blockchain has been constructed
InitLedger == NoLedger /\ IdleBroker

NextLedger ==
    \/ \E n \in ChainNames, ts \in Timestamps : new_Blockchain(n, ts)
    \/ \E n \in ChainNames, ts \in Timestamps : initialize_blockchain(n, ts)
    \/ \E e \in Entries, ts \in Timestamps : add_block(e[1], e[2], ts)
    \/ check_is_valid
    \/ \E n \in ChainNames : load_blockchain(n)
    \/ \E n \in ChainNames : remove_blockchain(n)

SpecLedger == InitLedger /\ [][NextLedger]_vars

\* the ledger, with one field of the chain in memory overwritten at some point,
\* after which the chain is only verified
NextTamper ==
    \/ tampered = NoTamper /\ NextLedger
    \/ \E i \in 1..MaxChain, f \in {"data", "previous_hash"},
          v \in Payloads \cup {Sentinel} \cup
                {blockchain.chain[j].hash : j \in 1..Len(blockchain.chain)} :
          tamper(i, f, v)
    \/ tampered # NoTamper /\ check_is_valid

SpecTamper == InitLedger /\ [][NextTamper]_vars

\* CommodityBroker(cash): __post_init__ fills in the empty collections
InitBroker ==
    /\ NoOther
    /\ NoLedger
    /\ cash \in InitialCash
    /\ positions = EmptyDict
    /\ entry_prices = EmptyDict
    /\ transaction_log = <<>>
    /\ position_keys = <<>>
    /\ trade = NoTrade
    /\ backtest = NoBacktest

NextBroker ==
    \/ \E t \in Tickers, q \in Quantities, p \in Prices, d \in Dates, x \in BuyExpiryDates :
          buy(t, q, p, d, x)
    \/ \E t \in Tickers, q \in Quantities, p \in Prices, d \in Dates :
          sell(t, q, p, d)

SpecBroker == InitBroker /\ [][NextBroker]_vars

\* CommodityBroker(cash), for the rebalancing runs
InitRebalance ==
    /\ NoOther
    /\ NoLedger
    /\ cash \in RebalanceCash
    /\ positions = EmptyDict
    /\ entry_prices = EmptyDict
    /\ transaction_log = <<>>
    /\ position_keys = <<>>
    /\ trade = NoTrade
    /\ backtest = NoBacktest

\* buy, sell, execute_portfolio and get_portfolio_value in any order; the
\* trading calls are made while the log holds fewer than MaxTrades rows
NextRebalance ==
    \/ /\ Len(transaction_log) < MaxTrades
       /\ \E t \in Tickers, q \in Quantities, d \in Dates : buy(t, q, Quote[t], d, None)
    \/ /\ Len(transaction_log) < MaxTrades
       /\ \E t \in Tickers, q \in Quantities, d \in Dates : sell(t, q, Quote[t], d)
    \/ /\ Len(transaction_log) < MaxTrades
       /\ \E pf \in Portfolios, pr \in PriceMaps, d \in Dates :
             execute_portfolio(pf, pr, d)
    \/ \E pr \in PriceMaps : call_get_portfolio_value(pr)

SpecRebalance == InitRebalance /\ [][NextRebalance]_vars

\* the portfolio dicts of one or two tickers with any weights of Weights:
\* the weights of a portfolio may sum to less or to more than 1
AnyPortfolios ==
    {<< <<t, w>> >> : t \in Tickers, w \in Weights} \cup
    {<< <<tu[1], w[1]>>, <<tu[2], w[2]>> >> :
        tu \in {y \in Tickers \X Tickers : y[1] # y[2]}, w \in Weights \X Weights}

\* buy and sell at the quote or at the price 0, execute_portfolio with any
\* weights and every ticker quoted, while the log holds fewer than MaxTrades
\* rows
NextAnyWeights ==
    \/ /\ Len(transaction_log) < MaxTrades
       /\ \E t \in Tickers, q \in Quantities, d \in Dates :
             \E pr \in {Quote[t], Zero} : buy(t, q, pr, d, None)
    \/ /\ Len(transaction_log) < MaxTrades
       /\ \E t \in Tickers, q \in Quantities, d \in Dates :
             \E pr \in {Quote[t], Zero} : sell(t, q, pr, d)
    \/ /\ Len(transaction_log) < MaxTrades
       /\ \E pf \in AnyPortfolios, d \in Dates : execute_portfolio(pf, Quote, d)

SpecAnyWeights == InitRebalance /\ [][NextAnyWeights]_vars

\* a market with a price that is a decimal fraction, which no float holds
\* exactly: CL=F quoted at 0.1, NG=F at 3.0
DecimalQuote == [t \in Tickers |-> IF t = "CL=F" THEN Fl(1, 10) ELSE FromInt(3)]

\* 0.9, 1.8 and 8.7
DecimalCash == {Fl(9, 10), Fl(18, 10), Fl(87, 10)}

\* a new broker with such a balance
InitDecimal ==
    /\ NoOther
    /\ NoLedger
    /\ cash \in DecimalCash
    /\ positions = EmptyDict
    /\ entry_prices = EmptyDict
    /\ transaction_log = <<>>
    /\ position_keys = <<>>
    /\ trade = NoTrade
    /\ backtest = NoBacktest

\* buy, sell and execute_portfolio with any weights, at the decimal quotes,
\* while the log holds fewer than MaxTrades rows
NextDecimal ==
    \/ /\ Len(transaction_log) < MaxTrades
       /\ \E t \in Tickers, q \in Quantities, d \in Dates :
             buy(t, q, DecimalQuote[t], d, None)
    \/ /\ Len(transaction_log) < MaxTrades
       /\ \E t \in Tickers, q \in Quantities, d \in Dates :
             sell(t, q, DecimalQuote[t], d)
    \/ /\ Len(transaction_log) < MaxTrades
       /\ \E pf \in AnyPortfolios, d \in Dates : execute_portfolio(pf, DecimalQuote, d)

SpecDecimal == InitDecimal /\ [][NextDecimal]_vars

\* no backtest constructed yet; the broker the base class gives to the object
\* is new, with cash 8.0 and a chain of its genesis block
InitBacktest ==
    /\ NoOther
    /\ blockchain = Blockchain("run1", 3)
    /\ files = store(blockchain, [n \in ChainNames |-> NoFile])
    /\ call = NoCall
    /\ tampered = NoTamper
    /\ cash = FromInt(8)
    /\ positions = EmptyDict
    /\ entry_prices = EmptyDict
    /\ transaction_log = <<>>
    /\ position_keys = <<>>
    /\ trade = NoTrade
    /\ backtest = NoBacktest

\* the object is constructed, its broker is used by its owner, and one of
\* the runs is called
NextBacktest ==
    \/ \E i \in 1..Len(Days), f \in 1..Len(Days), a \in AssetTypes, c \in BOOLEAN :
          MultiAssetBacktest(i, f, a, c)
    \/ /\ backtest.pc = "initialized"
       /\ Len(transaction_log) < MaxTrades
       /\ \E t \in Tickers, q \in Quantities, x \in ExpiryDates :
             buy(t, q, Quote[t], Days[1], x)
    \/ run_backtest
    \/ run_stock_backtest
    \/ run_commodities_backtest
    \/ \E d \in 1..Len(Days), pr \in DayPrices : sell_expired_contracts(Days[d], pr)

SpecBacktest == InitBacktest /\ [][NextBacktest]_vars

\* a data module over one of the frames, beside an unused broker and ledger
InitData ==
    /\ NoLedger
    /\ cash = 0
    /\ positions = EmptyDict
    /\ entry_prices = EmptyDict
    /\ transaction_log = <<>>
    /\ position_keys = <<>>
    /\ trade = NoTrade
    /\ backtest = NoBacktest
    /\ option_positions = EmptyDict
    /\ query \in {Loaded(d) : d \in DataFrames}

NextData ==
    \/ \E s \in Windows, t \in QueryDays : call_slice_data(s, t)
    \/ \E s \in Windows, t \in QueryDays : call_get_prices(s, t)
    \/ \E i \in InformationSets, o \in Optimizer : call_compute_portfolio(i, o)

SpecData == InitData /\ [][NextData]_vars

\* no option constructed yet, beside an unused broker and ledger
InitOption == NoLedger /\ IdleBroker

NextOption ==
    \/ \E ty \in OptionTypes, S \in OptionValues, K \in OptionValues,
          T \in OptionValues, sigma \in OptionValues : new_Option(ty, S, K, T, sigma)
    \/ \E m \in Methods, kw \in Overrides : call_method(m, kw)

SpecOption == InitOption /\ [][NextOption]_vars

\* ExtendedBroker(cash): no option held
InitOptionBroker ==
    /\ NoLedger
    /\ cash = FromInt(4)
    /\ positions = EmptyDict
    /\ entry_prices = EmptyDict
    /\ transaction_log = <<>>
    /\ position_keys = <<>>
    /\ trade = NoTrade
    /\ backtest = NoBacktest
    /\ NoOther

\* the calls come with the simulated day they are made on, days never go back
NextOptionBroker ==
    \E d \in OptionDays :
        /\ trade.op # "none" => d >= trade.date
        /\ \/ \E n \in OptionNames, o \in OptionContracts, q \in Quantities :
                 buy_option(n, o, q, d)
           \/ \E n \in OptionNames, q \in Quantities : sell_option(n, q, d)

SpecOptionBroker == InitOptionBroker /\ [][NextOptionBroker]_vars

\* a purchase date and a ticker, beside an unused broker and ledger
InitExpiry ==
    /\ NoLedger
    /\ cash = 0
    /\ positions = EmptyDict
    /\ entry_prices = EmptyDict
    /\ transaction_log = <<>>
    /\ position_keys = <<>>
    /\ trade = NoTrade
    /\ backtest = NoBacktest
    /\ option_positions = EmptyDict
    /\ query \in {Arguments(x, t) :
                    x \in {Date(y, m, d) : y \in BuyYears, m \in 1..12, d \in 1..31},
                    t \in ExpiryTickers}
    /\ IsDate(query.buy_date)

NextExpiry ==
    \/ call_get_futures_expiry
    \/ \E commodity \in DOMAIN commodity_contract_months \cup {"gold"} :
            call_get_cbot_expiry(commodity)
    \/ call_get_commodity_data

SpecExpiry == InitExpiry /\ [][NextExpiry]_vars

Spec == SpecLedger

(***************************************************************************)
(* Claims about the ledger                                                 *)
(***************************************************************************)
StoredChain(n) == pickle_load(files[n]).chain

\* C1: after a Blockchain is created and extended by any sequence of add_block
\* calls (any names, any payloads, empty ones too), is_valid() returns True,
\* for the chain in memory and for the chain a load returns.
C1_ValidAfterAppends ==
    /\ blockchain # NoObject => is_valid(blockchain.chain)
    /\ call.op = "is_valid" => call.result = "True"
    /\ \A n \in ChainNames : files[n] # NoFile => is_valid(StoredChain(n))

\* C1 witness: add_block has just appended a block with an empty name and an
\* empty payload to a chain that already had a block after the genesis block.
C1_Witness ==
    /\ call.op = "add_block"
    /\ Len(blockchain.chain) >= 3
    /\ blockchain.chain[Len(blockchain.chain)].name_backtest = <<>>
    /\ blockchain.chain[Len(blockchain.chain)].data = <<>>

\* C2: if the data or the previous_hash of any one stored block, at any
\* position of the chain, is changed to a different value without recomputing
\* hashes, is_valid() returns False.
C2_TamperDetected ==
    (tampered # NoTamper /\ Len(blockchain.chain) >= 2) => ~ is_valid(blockchain.chain)

\* The same for the blocks is_valid visits, those after the genesis block.
TamperDetectedPastGenesis ==
    tampered.index >= 2 => ~ is_valid(blockchain.chain)

WellFormed(chain) ==
    /\ Len(chain) >= 1
    /\ chain[1].name_backtest = GenesisName
    /\ chain[1].data = <<>>
    /\ chain[1].previous_hash = <<"0">>
    /\ \A i \in 2..Len(chain) :
        /\ chain[i].previous_hash = chain[i - 1].hash
        /\ chain[i].hash = sha256_hexdigest(StrFloat(chain[i].timestamp)
                               \o chain[i].name_backtest \o chain[i].data
                               \o chain[i].previous_hash)

\* C3: in every chain, chain[0] is the genesis block with previous_hash '0',
\* and for every i > 0 chain[i].previous_hash = chain[i-1].hash and
\* chain[i].hash is the digest of (timestamp, name, data, previous_hash).
C3_ChainInvariant ==
    /\ blockchain # NoObject => WellFormed(blockchain.chain)
    /\ \A n \in ChainNames : files[n] # NoFile => WellFormed(StoredChain(n))

\* C3 witness: a chain of the genesis block and two more blocks, with different
\* timestamps, in memory and on disk.
C3_Witness ==
    /\ blockchain # NoObject
    /\ Len(blockchain.chain) >= 3
    /\ blockchain.chain[2].timestamp # blockchain.chain[3].timestamp
    /\ files[blockchain.name] = pickle_dump(blockchain)

\* C4: creating a chain under a name that already has a persisted chain never
\* replaces the persisted chain: the plain creation fails with a
\* duplicate-ledger error and leaves the file as it is, and the creation with
\* the load-existing option returns the persisted chain with all its blocks.
C4_CreateKeepsPersistedChain ==
    [][\A n \in ChainNames :
          (files[n] # NoFile /\ call'.name = n) =>
              /\ call'.op = "Blockchain" =>
                    /\ call'.result = "DuplicateLedgerError"
                    /\ files'[n] = files[n]
              /\ call'.op = "initialize_blockchain" =>
                    /\ files'[n] = files[n]
                    /\ blockchain' = pickle_load(files[n])]_vars

IsPrefix(s, t) == Len(s) <= Len(t) /\ SubSeq(t, 1, Len(s)) = s

\* C5: add_block lengthens the chain by exactly one block placed at the end and
\* leaves every earlier block and their order unchanged; no ledger operation
\* other than removing the whole chain deletes or rewrites a stored block.
C5_BlocksRetained ==
    [][/\ call'.op = "add_block" =>
            /\ Len(blockchain'.chain) = Len(blockchain.chain) + 1
            /\ IsPrefix(blockchain.chain, blockchain'.chain)
       /\ \A n \in ChainNames :
            (files[n] # NoFile /\ call'.op # "remove_blockchain") =>
                /\ files'[n] # NoFile
                /\ IsPrefix(StoredChain(n), pickle_load(files'[n]).chain)]_vars

(***************************************************************************)
(* Claims about the broker                                                 *)
(***************************************************************************)
BrokerUnchanged == UNCHANGED <<cash, positions, entry_prices, transaction_log>>

\* C6: buy with cash < quantity * price is a no-op: cash, positions,
\* entry_prices and the transaction log are unchanged and nothing is raised.
C6_UnaffordableBuyIsNoOp ==
    [][(trade'.op = "buy" /\ FLt(cash, FMul(trade'.price, FromInt(trade'.quantity)))) =>
           (BrokerUnchanged /\ trade'.outcome = "rejected")]_vars

\* C6 witness: a buy of two units that cost more than the cash was rejected.
C6_Witness ==
    /\ trade.op = "buy"
    /\ trade.quantity = 2
    /\ FLt(trade.cash0, FMul(trade.price, FromInt(trade.quantity)))
    /\ trade.outcome = "rejected"

OthersUnchanged(t) ==
    /\ DOMAIN positions' \ {t} = DOMAIN positions \ {t}
    /\ \A u \in DOMAIN positions \ {t} : positions'[u] = positions[u]

\* C7: buy with cash >= quantity * price decreases cash by quantity * price,
\* increases the held quantity by quantity (a new position gets entry_price =
\* price, a held one the quantity-weighted average), leaves the other positions
\* unchanged and appends exactly one BUY record.
C7_AffordableBuy ==
    [][(trade'.op = "buy" /\ FGe(cash, FMul(trade'.price, FromInt(trade'.quantity)))) =>
        LET t == trade'.ticker
            q == trade'.quantity
            p == trade'.price
        IN  /\ cash' = FSub(cash, FMul(p, FromInt(q)))
            /\ Len(transaction_log') = Len(transaction_log) + 1
            /\ IsPrefix(transaction_log, transaction_log')
            /\ transaction_log'[Len(transaction_log')].Action = "BUY"
            /\ transaction_log'[Len(transaction_log')].Ticker = t
            /\ transaction_log'[Len(transaction_log')].Quantity = q
            /\ transaction_log'[Len(transaction_log')].Price = p
            /\ OthersUnchanged(t)
            /\ t \in DOMAIN positions'
            /\ positions'[t].quantity = Held(positions, t) + q
            /\ IF t \in DOMAIN positions
               THEN /\ positions[t].quantity + q # 0
                    /\ positions'[t].entry_price =
                         FDiv(FAdd(FMul(positions[t].entry_price,
                                        FromInt(positions[t].quantity)),
                                   FMul(p, FromInt(q))),
                              FromInt(positions[t].quantity + q))
               ELSE positions'[t].entry_price = p]_vars

\* C8: sell of a ticker that is not held, or of more than is held, is a no-op:
\* cash, positions, entry_prices and the transaction log are unchanged and
\* nothing is raised.
C8_UncoveredSellIsNoOp ==
    [][(/\ trade'.op = "sell"
        /\ \/ trade'.ticker \notin DOMAIN positions
           \/ positions[trade'.ticker].quantity < trade'.quantity) =>
           (BrokerUnchanged /\ trade'.outcome = "rejected")]_vars

\* C8 witness: a sell of two units of a ticker of which one unit is held was
\* rejected.
C8_Witness ==
    /\ trade.op = "sell"
    /\ trade.present0
    /\ trade.held0 = 1
    /\ trade.quantity = 2
    /\ trade.outcome = "rejected"

\* C9: sell with held quantity >= quantity increases cash by quantity * price,
\* decreases the held quantity by quantity, deletes the position and its
\* entry_prices entry exactly when nothing remains, leaves the other positions
\* unchanged and appends exactly one SELL record.
C9_CoveredSell ==
    [][(/\ trade'.op = "sell"
        /\ trade'.ticker \in DOMAIN positions
        /\ positions[trade'.ticker].quantity >= trade'.quantity) =>
        LET t == trade'.ticker
            q == trade'.quantity
            p == trade'.price
        IN  /\ cash' = FAdd(cash, FMul(p, FromInt(q)))
            /\ Held(positions', t) = positions[t].quantity - q
            /\ (t \in DOMAIN positions') <=> (positions[t].quantity - q # 0)
            /\ t \in DOMAIN positions' =>
                  positions'[t] = [positions[t] EXCEPT !.quantity = @ - q]
            /\ IF positions[t].quantity - q = 0
               THEN /\ t \notin DOMAIN entry_prices'
                    /\ \A u \in DOMAIN entry_prices \ {t} :
                          u \in DOMAIN entry_prices' /\ entry_prices'[u] = entry_prices[u]
               ELSE entry_prices' = entry_prices
            /\ OthersUnchanged(t)
            /\ transaction_log' =
                 Append(transaction_log,
                        [Date |-> transaction_log'[Len(transaction_log')].Date,
                         Action |-> "SELL", Ticker |-> t, Quantity |-> q,
                         Price |-> p, Cash |-> cash'])]_vars

\* C9 witness: a sell of the one unit held of a ticker removed the position and
\* its entry price, while a position in another ticker stayed.
C9_Witness ==
    /\ trade.op = "sell"
    /\ trade.outcome = "done"
    /\ trade.quantity = 1
    /\ trade.held0 = 1
    /\ trade.ticker \notin DOMAIN positions
    /\ trade.ticker \notin DOMAIN entry_prices
    /\ DOMAIN positions # {}

\* C10: a successful buy(ticker, q, p) immediately followed by sell(ticker, q, p)
\* returns cash to exactly its value before the buy, and the held quantity of
\* the ticker to its value before the buy.
C10_BuyThenSellRestores ==
    [][(/\ trade.op = "buy" /\ trade.outcome = "done"
        /\ trade'.op = "sell" /\ trade'.outcome = "done"
        /\ trade'.ticker = trade.ticker
        /\ trade'.quantity = trade.quantity
        /\ trade'.price = trade.price) =>
           /\ cash' = trade.cash0
           /\ Held(positions', trade.ticker) = trade.held0
           /\ ~ trade.present0 => trade.ticker \notin DOMAIN positions']_vars

\* The held quantity alone is restored by a buy followed by the same sell.
BuyThenSellRestoresHolding ==
    [][(/\ trade.op = "buy" /\ trade.outcome = "done"
        /\ trade'.op = "sell" /\ trade'.outcome = "done"
        /\ trade'.ticker = trade.ticker
        /\ trade'.quantity = trade.quantity
        /\ trade'.price = trade.price) =>
           /\ Held(positions', trade.ticker) = trade.held0
           /\ ~ trade.present0 => trade.ticker \notin DOMAIN positions']_vars

(***************************************************************************)
(* Claims about rebalancing                                                *)
(***************************************************************************)
\* C11: after any sequence of buy, sell and execute_portfolio calls on a broker
\* that starts with no positions, every entry of the positions map has a
\* quantity of at least 1; a position of quantity zero is never present.
C11_NoZeroPosition == \A t \in DOMAIN positions : positions[t].quantity >= 1

\* C12: with cash >= 0, strictly positive prices, non-negative quantities and
\* target weights in [0,1], no call of buy, sell or execute_portfolio raises
\* an exception.
C12_NoException == trade.outcome \in {"none", "done", "rejected"}

\* the rows an execute_portfolio has appended are those after row trade.log0
Appended == (trade.log0 + 1)..Len(transaction_log)

\* C13: within one execute_portfolio call every SELL row it appends to the
\* transaction log precedes every BUY row it appends.
C13_SellsBeforeBuys ==
    trade.op = "execute_portfolio" =>
        \A i \in Appended, j \in Appended :
            (transaction_log[i].Action = "BUY" /\ transaction_log[j].Action = "SELL")
                => j < i

\* C13 witness: an execute_portfolio whose portfolio lists the instrument to
\* buy before the instrument to sell has appended a SELL row and a BUY row.
C13_Witness ==
    /\ trade.op = "execute_portfolio"
    /\ Len(trade.portfolio) = 2
    /\ \E i \in Appended, j \in Appended :
          /\ transaction_log[i].Action = "BUY"
          /\ transaction_log[i].Ticker = trade.portfolio[1][1]
          /\ transaction_log[j].Action = "SELL"
          /\ transaction_log[j].Ticker = trade.portfolio[2][1]

\* C14: in the buy pass of execute_portfolio, when the desired whole-unit
\* quantity costs more than the available cash, the broker buys exactly
\* floor(available cash / price) units, and that buy succeeds.
C14_PartialBuy ==
    trade.op = "execute_portfolio" =>
        \A i \in 1..Len(trade.partial) :
            /\ trade.partial[i].quantity =
                   XFloorDiv(trade.partial[i].available_cash, trade.partial[i].price)
            /\ trade.partial[i].bought

\* the state an execute_portfolio(portfolio, prices, date) leads to, as a step
ExecutesAs(portfolio, prices, date) ==
    LET s == execute_portfolio_call(Self, portfolio, prices, date)
    IN  /\ cash' = s.cash
        /\ positions' = s.positions
        /\ entry_prices' = s.entry_prices
        /\ transaction_log' = s.transaction_log

\* the items of a portfolio whose ticker has a quoted price
Quoted(portfolio, prices) ==
    SelectSeq(portfolio, LAMBDA it : PriceGet(prices, it[1]) # NonePrice)

\* C15: execute_portfolio performs no trade in, and leaves the position of,
\* every target instrument without a quoted price in the prices map; the other
\* target instruments are processed as if the unquoted ones were no targets.
C15_UnquotedTargetSkipped ==
    [][trade'.op = "execute_portfolio" =>
        /\ \A k \in 1..Len(trade'.portfolio) :
              LET tkr == trade'.portfolio[k][1]
              IN  PriceGet(trade'.prices, tkr) = NonePrice =>
                    /\ (tkr \in DOMAIN positions') = (tkr \in DOMAIN positions)
                    /\ tkr \in DOMAIN positions => positions'[tkr] = positions[tkr]
                    /\ \A i \in (Len(transaction_log) + 1)..Len(transaction_log') :
                          transaction_log'[i].Ticker # tkr
        /\ \E d \in Dates :
              ExecutesAs(Quoted(trade'.portfolio, trade'.prices), trade'.prices, d)
    ]_vars

\* C15 witness: an execute_portfolio over two targets, the first held and
\* without a quoted price, has traded the second.
C15_Witness ==
    /\ trade.op = "execute_portfolio"
    /\ Len(trade.portfolio) = 2
    /\ PriceGet(trade.prices, trade.portfolio[1][1]) = NonePrice
    /\ trade.portfolio[1][1] \in DOMAIN positions
    /\ \E i \in Appended : transaction_log[i].Ticker = trade.portfolio[2][1]

\* the sum of the numbers f[x] over the finite set S
RECURSIVE SumOver(_, _)
SumOver(S, f) ==
    IF S = {} THEN Zero
    ELSE LET x == CHOOSE y \in S : TRUE IN XAdd(f[x], SumOver(S \ {x}, f))

\* a number that is a float
IsFloat(v) == BBitLen(v.m) <= MantissaBits

\* the held tickers with a price in the map that is not None
Priced(pos, market_prices) ==
    {t \in DOMAIN pos : t \in DOMAIN market_prices /\ market_prices[t] # NonePrice}

\* cash plus the sum of quantity * price over the held tickers with a price,
\* as a number
ExactValue(c, pos, market_prices) ==
    XAdd(c, SumOver(Priced(pos, market_prices),
                    [t \in Priced(pos, market_prices) |->
                        XMul(FromInt(pos[t].quantity), market_prices[t])]))

\* every product and every sum of the loop from the value v is a float, so
\* that no operation of the loop rounds
RECURSIVE SumsExactly(_, _, _, _)
SumsExactly(v, keys, pos, market_prices) ==
    IF keys = <<>> THEN TRUE
    ELSE LET term == XMul(FromInt(pos[Head(keys)].quantity), market_prices[Head(keys)])
         IN  /\ IsFloat(term)
             /\ IsFloat(XAdd(v, term))
             /\ SumsExactly(XAdd(v, term), Tail(keys), pos, market_prices)

\* C16: get_portfolio_value(prices) is cash plus the sum of quantity * price
\* over exactly the held tickers with a non-missing price (exactly that sum
\* where no operation rounds); a held ticker without a quoted price contributes
\* nothing, and the call changes no broker state.
C16_PortfolioValue ==
    [][trade'.op = "get_portfolio_value" =>
        LET pr == trade'.prices
            priced == Priced(positions, pr)
            exact == ExactValue(cash, positions, pr)
        IN  /\ SumsExactly(cash, SelectSeq(position_keys, LAMBDA t : t \in priced),
                            positions, pr) => trade'.result = exact
            /\ trade'.result =
                 SumValue(cash, SelectSeq(position_keys, LAMBDA t : t \in priced),
                          positions, pr)
            /\ UNCHANGED <<cash, positions, entry_prices, transaction_log,
                           position_keys>>
    ]_vars

\* C16 witness: get_portfolio_value has been called with two tickers held, one
\* of them without a quoted price, and has returned more than the cash.
C16_Witness ==
    /\ trade.op = "get_portfolio_value"
    /\ Cardinality(DOMAIN positions) = 2
    /\ Cardinality(Priced(positions, trade.prices)) = 1
    /\ FGt(trade.result, cash)

\* C18: the transaction log is append-only: a successful buy or sell appends
\* exactly one row whose Cash is the cash right after the trade, a rejected
\* buy or sell appends none, and no operation changes, reorders or removes an
\* earlier row.
C18_LogAppendOnly ==
    [][/\ IsPrefix(transaction_log, transaction_log')
       /\ (trade'.op \in {"buy", "sell"} /\ trade'.outcome = "done") =>
             /\ Len(transaction_log') = Len(transaction_log) + 1
             /\ transaction_log'[Len(transaction_log')].Cash = cash'
       /\ (trade'.op \in {"buy", "sell"} /\ trade'.outcome = "rejected") =>
             transaction_log' = transaction_log
       /\ Len(transaction_log') > Len(transaction_log) =>
             transaction_log'[Len(transaction_log')].Cash = cash'
    ]_vars

\* C18 witness: a sell has succeeded on a log that already held a row, and the
\* row it appended carries the cash balance after the sale.
C18_Witness ==
    /\ trade.op = "sell"
    /\ trade.outcome = "done"
    /\ Len(transaction_log) >= 2
    /\ transaction_log[Len(transaction_log)].Action = "SELL"
    /\ transaction_log[Len(transaction_log)].Cash = cash

(***************************************************************************)
(* Claims about the backtest run                                           *)
(***************************************************************************)
\* a position whose expiry date is on or before the day
Expired(position, day) ==
    position.expiry_date # None /\ DateOrd(position.expiry_date) <= DateOrd(day)

\* a commodities run that has returned or raised
Ended ==
    /\ backtest.pc \in {"completed", "raised"}
    /\ backtest.asset_type = "commodities"

\* the days of the inclusive range [initial_date, final_date]
RangeDays == backtest.initial..backtest.final

\* the steps of a day
DaySteps == {"stop_loss", "decision", "rebalance"}

\* a commodities run that has ended and in which no step of a day has raised.
\* The dates, the asset type and the universe of the runs of the model are
\* valid, so that such a run is one that has gone through its days.
NoDayFailed == Ended /\ backtest.step \notin DaySteps

\* C17: on every rebalance at date t, before the target weights are executed,
\* every held position whose expiry date is on or before t is sold in full at
\* its last known price and removed: once sell_expired_contracts(t, prices)
\* has been called, no position with expiry on or before t is held, and each
\* such position held before the call has a SELL row of its whole quantity at
\* its price.
C17_ExpiredSoldBeforeBuys ==
    trade.op = "sell_expired_contracts" =>
        /\ \A tkr \in DOMAIN positions : ~ Expired(positions[tkr], trade.date)
        /\ \A tkr \in DOMAIN trade.before :
              Expired(trade.before[tkr], trade.date) =>
                  \E i \in (trade.rows0 + 1)..Len(transaction_log) :
                      /\ transaction_log[i].Action = "SELL"
                      /\ transaction_log[i].Ticker = tkr
                      /\ transaction_log[i].Quantity = trade.before[tkr].quantity
                      /\ transaction_log[i].Price = trade.prices[tkr]

\* C19: a commodities run processes every day of the inclusive range
\* [initial_date, final_date] exactly once and in ascending order: the days
\* of a run that has ended are consecutive days from initial on, and they are
\* initial, initial + 1, ..., final when no step of a day has raised.
C19_DaysInOrder ==
    Ended =>
        /\ \A i \in 1..Len(backtest.days) : backtest.days[i] = backtest.initial + i - 1
        /\ Len(backtest.days) <= Cardinality(RangeDays)
        /\ NoDayFailed => Len(backtest.days) = Cardinality(RangeDays)

\* a run that an exception has left has entered no day, holds no block and
\* has left the broker as it was
RaisedRunStops ==
    backtest.pc = "raised" =>
        /\ backtest.days = <<>>
        /\ backtest.steps = <<>>
        /\ Len(blockchain.chain) = 1
        /\ StoredChain("run1") = blockchain.chain

\* the run changes nothing but the backtest object
RunLeavesBroker ==
    [][backtest' # backtest => UNCHANGED <<ledger_vars, broker_vars>>]_vars

(***************************************************************************)
(* Claims about the data module                                            *)
(***************************************************************************)
\* the rows of the frame inside the window of the query
InWindow(data, s, t) ==
    {i \in 1..Len(data) : t - s <= data[i].Date /\ data[i].Date < t}

\* C24: for every query time t and window s, slice_data(t) returns exactly
\* the rows whose date d satisfies t - s <= d < t: none dated at or after t,
\* none dated before t - s, and every row of the window; it returns them for
\* every frame of the data module, the one without data included.
C24_SliceIsWindow ==
    query.op = "slice_data" =>
        /\ query.result.raised = None
        /\ \A i \in 1..Len(query.result.rows) :
              /\ query.result.rows[i].Date < query.t
              /\ query.result.rows[i].Date >= query.t - query.s
        /\ {query.result.rows[i] : i \in 1..Len(query.result.rows)} =
              {query.data[i] : i \in InWindow(query.data, query.s, query.t)}
        /\ Len(query.result.rows) =
              Cardinality(InWindow(query.data, query.s, query.t))

\* on a frame with rows slice_data(t) returns exactly the rows of the window,
\* in the order of the frame
SliceOfRowsIsWindow ==
    (query.op = "slice_data" /\ query.data # <<>>) =>
        /\ query.result.raised = None
        /\ query.result.rows =
              SelectSeq(query.data, LAMBDA row : /\ query.t - query.s <= row.Date
                                                 /\ row.Date < query.t)
        /\ Len(query.result.rows) =
              Cardinality(InWindow(query.data, query.s, query.t))

\* on the frame without data slice_data and get_prices raise KeyError
NoDataRaises ==
    (query.op \in {"slice_data", "get_prices"} /\ query.data = <<>>) =>
        query.result.raised = "KeyError"

\* the rows of a ticker that count for the price at t: inside the window and
\* not expired before t
Live(data, s, t, tkr) ==
    {i \in InWindow(data, s, t) : data[i].ticker = tkr /\ data[i].expiry >= t}

\* C25: get_prices(t) maps each instrument to the close of its latest row
\* dated strictly before t within the window, rows whose expiry date is before
\* t being excluded: an instrument whose rows in the window have all expired
\* has no price.
C25_LastLivePrice ==
    (query.op = "get_prices" /\ query.result.raised = None) =>
        /\ DOMAIN query.result.prices =
              {tkr \in Tickers : Live(query.data, query.s, query.t, tkr) # {}}
        /\ \A tkr \in DOMAIN query.result.prices :
              \E i \in Live(query.data, query.s, query.t, tkr) :
                  /\ query.result.prices[tkr] = query.data[i].Close
                  /\ \A j \in Live(query.data, query.s, query.t, tkr) :
                        query.data[j].Date <= query.data[i].Date

\* get_prices(t) maps each instrument with a row in the window to the close
\* of its latest row there, whatever the expiry of the row
LastPriceInWindow ==
    (query.op = "get_prices" /\ query.result.raised = None) =>
        /\ DOMAIN query.result.prices =
              {query.data[i].ticker : i \in InWindow(query.data, query.s, query.t)}
        /\ \A tkr \in DOMAIN query.result.prices :
              \E i \in InWindow(query.data, query.s, query.t) :
                  /\ query.data[i].ticker = tkr
                  /\ query.result.prices[tkr] = query.data[i].Close
                  /\ \A j \in InWindow(query.data, query.s, query.t) :
                        query.data[j].ticker = tkr =>
                            query.data[j].Date <= query.data[i].Date

\* C26: compute_portfolio never raises; when the optimizer does not converge
\* or a step of the computation fails it returns the equal-weight portfolio,
\* 1/n for each of the n instruments, and the empty one without instruments.
C26_EqualWeightFallback ==
    (/\ query.op = "compute_portfolio"
     /\ (query.outcome # "success" \/ ~ query.information_set.has_mu)) =>
        LET c == query.information_set.companies
            n == Len(c)
        IN  /\ query.result.raised = None
            /\ DOMAIN query.result.portfolio = {c[i] : i \in 1..n}
            /\ \A k \in DOMAIN query.result.portfolio :
                  /\ query.result.portfolio[k] = FDiv(One, FromInt(n))
                  /\ FGt(query.result.portfolio[k], Zero)
                  /\ (n = 1 \/ n = 2) => XMul(FromInt(n), query.result.portfolio[k]) = One

\* C26 witness: the optimizer has not converged over two instruments and the
\* portfolio returned holds both.
C26_Witness ==
    /\ query.op = "compute_portfolio"
    /\ query.outcome = "not_converged"
    /\ query.information_set.has_mu
    /\ Len(query.information_set.companies) = 2
    /\ Cardinality(DOMAIN query.result.portfolio) = 2

(***************************************************************************)
(* Claims about options                                                    *)
(***************************************************************************)
\* the error of the parameter validation
IsValidationError(r) == r.raised = "ValueError" /\ r.message # "math domain error"

\* C27: every pricing or Greek evaluation whose effective underlying price,
\* strike, volatility or time to maturity is <= 0, from the contract or from
\* an override of the call, fails with the parameter-validation error, and so
\* does the construction of an Option whose type is neither 'Call' nor 'Put';
\* none returns a number or fails with another error.
C27_InvalidParametersRejected ==
    /\ (query.op = "Option" /\ query.option_type \notin {"Call", "Put"}) =>
          IsValidationError(query.option)
    /\ (query.op = "Option" /\ \E i \in 1..4 : query.args[i] <= 0) =>
          IsValidationError(query.option)
    /\ (/\ query.op \in Methods
        /\ \/ Effective(query.option, query.kwargs, "underlying_price") <= 0
           \/ query.option.strike_price <= 0
           \/ Effective(query.option, query.kwargs, "time_to_maturity") <= 0
           \/ Effective(query.option, query.kwargs, "implied_volatility") <= 0) =>
          IsValidationError(query.result)

\* the constructor rejects what the claim says and an option that exists has
\* positive parameters
ConstructorValidates ==
    query.op = "Option" =>
        (query.option.raised = None <=>
            (query.option_type \in {"Call", "Put"} /\ \A i \in 1..4 : query.args[i] > 0))

\* the call of trade is one the claim calls a no-op
OptionRejected ==
    IF trade.op = "sell_option"
    THEN \/ trade.name \notin DOMAIN trade.positions0
         \/ trade.quantity > trade.positions0[trade.name].quantity
    ELSE \E o \in OptionContracts :
            /\ black_scholes(o) = trade.premium
            /\ FGt(FMul(black_scholes(o), FromInt(trade.quantity)), trade.cash0)

\* C28: sell_option for a name that is not held or for more than is held, and
\* buy_option whose total premium exceeds cash, change neither cash nor the
\* option positions nor the log; every other call moves cash by exactly
\* quantity * premium and appends exactly one BUY_OPTION or SELL_OPTION row.
C28_OptionTradeDiscipline ==
    trade.op \in {"buy_option", "sell_option"} =>
        IF OptionRejected
        THEN /\ cash = trade.cash0
             /\ option_positions = trade.positions0
             /\ transaction_log = trade.log0
        ELSE /\ cash = IF trade.op = "buy_option"
                       THEN FSub(trade.cash0, FMul(trade.premium, FromInt(trade.quantity)))
                       ELSE FAdd(trade.cash0, FMul(trade.premium, FromInt(trade.quantity)))
             /\ Len(transaction_log) = Len(trade.log0) + 1
             /\ IsPrefix(trade.log0, transaction_log)
             /\ LET row == transaction_log[Len(transaction_log)]
                IN  /\ row.Action = IF trade.op = "buy_option" THEN "BUY_OPTION"
                                    ELSE "SELL_OPTION"
                    /\ row.Ticker = trade.name
                    /\ row.Quantity = trade.quantity
                    /\ row.Price = trade.premium

\* C28 witness: a sell_option of a held quantity has gone through; it has
\* credited cash and added its row to the rows of the buy_option before it.
C28_Witness ==
    /\ trade.op = "sell_option"
    /\ ~ OptionRejected
    /\ trade.quantity > 0
    /\ FGt(cash, trade.cash0)
    /\ Len(transaction_log) = Len(trade.log0) + 1
    /\ \E i \in 1..Len(trade.log0) : trade.log0[i].Action = "BUY_OPTION"

\* a buy_option of quantity 0 on a position of quantity 0 goes through like
\* any other: the average price of the position becomes nan
ZeroOverZeroIsNaN ==
    (/\ trade.op = "buy_option"
     /\ trade.outcome = "done"
     /\ trade.name \in DOMAIN trade.positions0
     /\ trade.positions0[trade.name].quantity + trade.quantity = 0) =>
        /\ option_positions[trade.name].entry_price = NaN
        /\ Len(transaction_log) = Len(trade.log0) + 1

\* the rejected calls are no-ops
OptionRejectedIsNoOp ==
    (trade.op \in {"buy_option", "sell_option"} /\ OptionRejected) =>
        /\ cash = trade.cash0
        /\ option_positions = trade.positions0
        /\ transaction_log = trade.log0
        /\ trade.outcome = "rejected"

\* the day on which the position of a name was opened, 0 when none is held:
\* the rows of the log are replayed with the quantity held
RECURSIVE OpenedOn(_, _, _, _, _)
OpenedOn(log, name, held, quantity, day) ==
    IF log = <<>> THEN (IF held THEN day ELSE 0)
    ELSE LET row == Head(log)
         IN  IF row.Ticker # name THEN OpenedOn(Tail(log), name, held, quantity, day)
             ELSE IF row.Action = "BUY_OPTION"
             THEN OpenedOn(Tail(log), name, TRUE, quantity + row.Quantity,
                           IF held THEN day ELSE row.Date)
             ELSE OpenedOn(Tail(log), name, quantity - row.Quantity # 0,
                           quantity - row.Quantity, day)

\* the option of a held position has run out of time on the day of the last call
OptionExpired(name) ==
    trade.date >= OpenedOn(transaction_log, name, FALSE, 0, 0) +
                  option_positions[name].option.time_to_maturity

\* C29: after any sequence of buy_option and sell_option calls and of elapsed
\* days, option_positions holds no position of quantity zero and no position
\* whose option has expired.
C29_NoZeroOrExpiredOption ==
    trade.op \in {"buy_option", "sell_option"} =>
        \A name \in DOMAIN option_positions :
            /\ option_positions[name].quantity # 0
            /\ ~ OptionExpired(name)

\* no position of quantity zero is held
NoZeroOption ==
    \A name \in DOMAIN option_positions : option_positions[name].quantity # 0

\* no position whose option has expired is held
NoExpiredOption ==
    trade.op \in {"buy_option", "sell_option"} =>
        \A name \in DOMAIN option_positions :
            option_positions[name].quantity # 0 => ~ OptionExpired(name)

(***************************************************************************)
(* Claims about contract expiry                                            *)
(***************************************************************************)
\* the listed months of a CBOT ticker
Listed(ticker) ==
    {cbot_contract_months[ticker][i] : i \in 1..Len(cbot_contract_months[ticker])}
Earliest(M) == CHOOSE m \in M : \A n \in M : m <= n

\* the last day from Monday to Friday strictly before the 15th of a month
LastWeekdayBefore15(c) ==
    CHOOSE x \in {Date(c.year, c.month, d) : d \in 1..14} :
        /\ weekday(toordinal(x)) \in 0..4
        /\ \A d \in (x.day + 1)..14 : weekday(toordinal(Date(c.year, c.month, d))) \in {5, 6}

\* the earliest listed month >= the purchase month, else the first listed
\* month of the next year
FrontContract(buy_date, ticker) ==
    LET later == {m \in Listed(ticker) : m >= buy_date.month}
    IN  IF later # {} THEN [year |-> buy_date.year, month |-> Earliest(later)]
        ELSE [year |-> buy_date.year + 1, month |-> Earliest(Listed(ticker))]

\* the listed month after a contract, the first of the next year after the last
NextContract(c, ticker) ==
    LET later == {m \in Listed(ticker) : m > c.month}
    IN  IF later # {} THEN [year |-> c.year, month |-> Earliest(later)]
        ELSE [year |-> c.year + 1, month |-> Earliest(Listed(ticker))]

\* the purchase is on or after the day 20 business days before the expiry:
\* fewer than 20 days from Monday to Friday lie from the purchase to the
\* day before the expiry
InRolloverWindow(buy_date, expiry) ==
    Cardinality({o \in toordinal(buy_date)..(toordinal(expiry) - 1) :
                    weekday(o) \in 0..4}) <= 20 /\
    (Cardinality({o \in toordinal(buy_date)..(toordinal(expiry) - 1) :
                    weekday(o) \in 0..4}) = 20 => weekday(toordinal(buy_date)) \in 0..4)

\* C30: for each CBOT ticker and every purchase date, get_futures_expiry
\* returns the last business day strictly before the 15th of the chosen
\* contract month: the earliest listed month >= the purchase month (else the
\* first listed month of the next year), replaced by the next listed month
\* exactly when the purchase is on or after the day 20 business days before
\* that first expiry.
C30_CbotExpiry ==
    (query.op = "get_futures_expiry" /\ query.ticker \in DOMAIN cbot_contract_months) =>
        LET front == FrontContract(query.buy_date, query.ticker)
            chosen == IF InRolloverWindow(query.buy_date, LastWeekdayBefore15(front))
                      THEN NextContract(front, query.ticker) ELSE front
        IN  query.result = strftime(LastWeekdayBefore15(chosen))

\* C30 witness: soybeans bought on 2024-12-20: no listed month is left in the
\* year, the January contract is inside its rollover window, and the expiry
\* is the Friday before Saturday 2025-03-15.
C30_Witness ==
    /\ query.op = "get_futures_expiry"
    /\ query.ticker = "ZS=F"
    /\ query.buy_date = Date(2024, 12, 20)
    /\ query.result = <<"2", "0", "2", "5", "-", "0", "3", "-", "1", "4">>

\* a purchase on the rollover date itself takes the next contract
C30_WitnessRolloverDay ==
    /\ query.op = "get_futures_expiry"
    /\ query.ticker = "ZW=F"
    /\ query.buy_date = Date(2024, 2, 15)
    /\ query.result = <<"2", "0", "2", "4", "-", "0", "5", "-", "1", "4">>

(***************************************************************************)
(* Claims about the expiry of energy contracts and of unsupported tickers  *)
(***************************************************************************)
\* a string of the form YYYY-MM-DD that names a date of the calendar
IsDateString(s) ==
    /\ Len(s) = 10
    /\ s[5] = "-" /\ s[8] = "-"
    /\ \A i \in {1, 2, 3, 4, 6, 7, 9, 10} : \E d \in 0..9 : DigitChar(d) = s[i]
    /\ IsDate(strptime(s))

\* the month after a month
MonthAfter(c) == IF c.month = 12 THEN [year |-> c.year + 1, month |-> 1]
                 ELSE [year |-> c.year, month |-> c.month + 1]

\* the day 3 business days before the 25th of a month: a weekday before the
\* 25th with exactly 3 weekdays from it to the 24th
ThreeBusinessDaysBefore25(c) ==
    CHOOSE x \in {Date(c.year, c.month, d) : d \in 1..24} :
        /\ weekday(toordinal(x)) \in 0..4
        /\ Cardinality({d \in x.day..24 :
                           weekday(toordinal(Date(c.year, c.month, d))) \in 0..4}) = 3

\* C31: for CL=F and a purchase date d, get_futures_expiry returns the date
\* 3 business days before the 25th of d's calendar month, unless that date
\* is before d, and then the date 3 business days before the 25th of the
\* following month (of January of the next year after December).
C31_CrudeOilExpiry ==
    (query.op = "get_futures_expiry" /\ query.ticker = "CL=F") =>
        LET d == query.buy_date
            this_month == ThreeBusinessDaysBefore25(d)
            following == ThreeBusinessDaysBefore25(MonthAfter(d))
        IN  query.result = strftime(IF toordinal(this_month) < toordinal(d)
                                    THEN following ELSE this_month)

\* C31 witness: crude oil bought on 2024-12-15 expires on 2024-12-20
C31_Witness ==
    /\ query.op = "get_futures_expiry"
    /\ query.ticker = "CL=F"
    /\ query.buy_date = Date(2024, 12, 15)
    /\ query.result = <<"2", "0", "2", "4", "-", "1", "2", "-", "2", "0">>

\* crude oil bought the day after that expiry takes January of the next
\* year, whose 25th is a Saturday
C31_WitnessNextYear ==
    /\ query.op = "get_futures_expiry"
    /\ query.ticker = "CL=F"
    /\ query.buy_date = Date(2024, 12, 21)
    /\ query.result = <<"2", "0", "2", "5", "-", "0", "1", "-", "2", "2">>

\* crude oil bought on the expiry itself keeps it
C31_WitnessExpiryDay ==
    /\ query.op = "get_futures_expiry"
    /\ query.ticker = "CL=F"
    /\ query.buy_date = Date(2024, 12, 20)
    /\ query.result = <<"2", "0", "2", "4", "-", "1", "2", "-", "2", "0">>

Supported == DOMAIN cbot_contract_months \cup energy_tickers

\* C32: for a ticker outside the eight supported ones get_futures_expiry
\* raises an unsupported-instrument error instead of returning a value, and
\* get_commodity_data stores no such result in the 'futures expiry' column:
\* every stored entry is a date string.
C32_UnsupportedTickerRaises ==
    /\ (query.op = "get_futures_expiry" /\ query.ticker \notin Supported) =>
            query.outcome = "raised"
    /\ query.op = "get_commodity_data" =>
            \A i \in 1..Len(query.df) : IsDateString(query.df[i].futures_expiry)

\* the first half alone: the call on an unsupported ticker does not return
C32_CallRaises ==
    (query.op = "get_futures_expiry" /\ query.ticker \notin Supported) =>
        query.outcome = "raised"

\* the second half alone: the column holds date strings only
C32_ColumnHoldsDates ==
    query.op = "get_commodity_data" =>
        \A i \in 1..Len(query.df) : IsDateString(query.df[i].futures_expiry)

\* C37: for each of the eight supported tickers and every purchase date, the
\* expiry get_futures_expiry returns is a date on or after the purchase date.
C37_ExpiryNotBeforePurchase ==
    (query.op = "get_futures_expiry" /\ query.ticker \in Supported) =>
        /\ IsDateString(query.result)
        /\ toordinal(strptime(query.result)) >= toordinal(query.buy_date)

\* the same for the tickers other than heating oil
C37_OtherThanHeatingOil ==
    (query.op = "get_futures_expiry" /\ query.ticker \in Supported \ {"HO=F"}) =>
        /\ IsDateString(query.result)
        /\ toordinal(strptime(query.result)) >= toordinal(query.buy_date)

\* C38: for each CBOT ticker and every purchase date, the purchase date is
\* strictly before the day 20 business days before the returned expiry, by
\* get_futures_expiry and by get_cbot_expiry alike, also where two listed
\* months follow one another.
C38_PurchaseBeforeRollover ==
    /\ (query.op = "get_futures_expiry" /\ query.ticker \in DOMAIN cbot_contract_months) =>
            ~InRolloverWindow(query.buy_date, strptime(query.result))
    /\ (query.op = "get_cbot_expiry" /\ query.commodity \in DOMAIN commodity_contract_months) =>
            ~InRolloverWindow(query.buy_date, strptime(query.manual))

\* the same for the tickers whose listed months are two months apart or more
C38_SpacedMonths ==
    (query.op = "get_futures_expiry" /\ query.ticker \in {"ZW=F", "ZC=F", "CC=F"}) =>
        ~InRolloverWindow(query.buy_date, strptime(query.result))

\* the commodity of get_cbot_expiry that a CBOT ticker stands for
CommodityOf == [t \in DOMAIN cbot_contract_months |->
                   CASE t = "ZS=F" -> "soybean" [] t = "ZW=F" -> "wheat"
                     [] t = "ZC=F" -> "corn" [] t = "CC=F" -> "cocoa"]

\* C39: on every purchase date get_cbot_expiry of soybean, wheat, corn and
\* cocoa returns what get_futures_expiry returns for ZS=F, ZW=F, ZC=F and
\* CC=F.
C39_ImplementationsAgree ==
    (/\ query.op = "get_cbot_expiry"
     /\ query.ticker \in DOMAIN cbot_contract_months
     /\ query.commodity = CommodityOf[query.ticker]) =>
        query.manual = query.result

\* C39 witness: soybeans bought on Sunday 2024-06-16, in the rollover window
\* of July, whose 14th is a Sunday: both return Wednesday 2024-08-14
C39_Witness ==
    /\ query.op = "get_cbot_expiry"
    /\ query.ticker = "ZS=F"
    /\ query.commodity = "soybean"
    /\ query.buy_date = Date(2024, 6, 16)
    /\ query.manual = query.result
    /\ query.result = <<"2", "0", "2", "4", "-", "0", "8", "-", "1", "4">>

(***************************************************************************)
(* Claims about the value, the cash and the allocation of a rebalance      *)
(***************************************************************************)
\* every held ticker has a price in the map that is not None
AllHeldQuoted(pos, prices) == \A t \in DOMAIN pos : PriceGet(prices, t) # NonePrice

\* the map in which a ticker has the price of a trade and every other ticker
\* its quote
QuotesWith(ticker, price) == [t \in Tickers |-> IF t = ticker THEN price ELSE Quote[t]]

\* C33: when every held ticker has a quoted price, execute_portfolio leaves
\* get_portfolio_value(prices) exactly unchanged whatever the target weights,
\* and so does a single buy or sell at the quoted price.
C33_ValuePreserved ==
    [][/\ (trade'.op = "execute_portfolio" /\ AllHeldQuoted(positions, trade'.prices)) =>
              SumValue(cash', position_keys', positions', trade'.prices)
                  = SumValue(cash, position_keys, positions, trade'.prices)
       /\ trade'.op \in {"buy", "sell"} =>
              LET pr == QuotesWith(trade'.ticker, trade'.price)
              IN  SumValue(cash', position_keys', positions', pr)
                      = SumValue(cash, position_keys, positions, pr)
    ]_vars

\* an amount whose sums and products with the like are exact: a multiple of
\* 0.25 below 2^51
Exact(v) == v = Zero \/ (v.e >= 0 - 2 /\ BBitLen(v.m) + v.e <= MantissaBits - 2)

\* the cash, the prices and the portfolio value are such amounts
AllExact(c, v, prices) ==
    /\ Exact(c)
    /\ Exact(v)
    /\ \A t \in DOMAIN prices : prices[t] # NonePrice => Exact(prices[t])

\* C33 where floats are exact: when every held ticker has a quoted price and the cash, the
\* prices and the portfolio value are multiples of 0.25 below 2^51,
\* execute_portfolio leaves get_portfolio_value(prices) unchanged whatever
\* the target weights, and so does a single buy or sell at the quoted price.
C33_ValuePreservedWhereExact ==
    [][/\ (/\ trade'.op = "execute_portfolio"
           /\ AllHeldQuoted(positions, trade'.prices)
           /\ AllExact(cash, SumValue(cash, position_keys, positions, trade'.prices),
                       trade'.prices)) =>
              SumValue(cash', position_keys', positions', trade'.prices)
                  = SumValue(cash, position_keys, positions, trade'.prices)
       /\ trade'.op \in {"buy", "sell"} =>
              LET pr == QuotesWith(trade'.ticker, trade'.price)
              IN  AllExact(cash, SumValue(cash, position_keys, positions, pr), pr) =>
                  SumValue(cash', position_keys', positions', pr)
                      = SumValue(cash, position_keys, positions, pr)
    ]_vars

\* the sum of the weights of a portfolio
RECURSIVE WeightSum(_)
WeightSum(portfolio) ==
    IF portfolio = <<>> THEN Zero ELSE XAdd(Head(portfolio)[2], WeightSum(Tail(portfolio)))

\* C34: from a cash balance >= 0, after any sequence of buy, sell and
\* execute_portfolio calls with non-negative quantities and prices and any
\* target weights, also weights that sum to more than 1, the cash is never
\* negative.
C34_CashNeverNegative == FGe(cash, Zero)

\* C34 witness: an execute_portfolio whose weights sum to more than 1 has
\* met a buy its cash did not cover and has left less than 8.0 of cash
C34_Witness ==
    /\ trade.op = "execute_portfolio"
    /\ FGt(WeightSum(trade.portfolio), One)
    /\ Len(trade.partial) > 0
    /\ \E i \in Appended : transaction_log[i].Action = "BUY"
    /\ FGe(cash, Zero)
    /\ FLt(cash, Quote["CL=F"])

\* a buy at the price 0 has been made
C34_WitnessFree ==
    /\ trade.op = "buy"
    /\ trade.outcome = "done"
    /\ trade.price = Zero
    /\ trade.quantity > 0

\* C35: after an execute_portfolio with positive prices and weights in
\* [0, 1], for every target with a quoted price the value held, quantity *
\* price, exceeds weight * total portfolio value by less than the price of
\* one unit, the amounts taken as numbers.
C35_NoWholeUnitOver ==
    trade.op = "execute_portfolio" =>
        \A k \in 1..Len(trade.portfolio) :
            LET tkr == trade.portfolio[k][1]
                weight == trade.portfolio[k][2]
                price == PriceGet(trade.prices, tkr)
                total == ExactValue(cash, positions, trade.prices)
            IN  price # NonePrice =>
                    FLt(XSub(XMul(FromInt(Held(positions, tkr)), price),
                             XMul(weight, total)), price)

\* C35 witness: an execute_portfolio has sold units of a target above its
\* weight and the target is still held, at or above its target value
C35_Witness ==
    /\ trade.op = "execute_portfolio"
    /\ trade.outcome = "done"
    /\ \E k \in 1..Len(trade.portfolio) :
          LET tkr == trade.portfolio[k][1]
              weight == trade.portfolio[k][2]
              price == PriceGet(trade.prices, tkr)
              total == ExactValue(cash, positions, trade.prices)
          IN  /\ price # NonePrice
              /\ FGt(weight, Zero)
              /\ Held(positions, tkr) > 0
              /\ FGe(XMul(FromInt(Held(positions, tkr)), price), XMul(weight, total))
              /\ \E i \in Appended : /\ transaction_log[i].Action = "SELL"
                                     /\ transaction_log[i].Ticker = tkr

\* C36: execute_portfolio trades only the tickers that are keys of the target
\* portfolio: a held position whose ticker is no target keeps its quantity
\* and its entry price and no row of the call names it.
C36_OnlyTargetsTraded ==
    [][trade'.op = "execute_portfolio" =>
        \A t \in DOMAIN positions :
            (\A k \in 1..Len(trade'.portfolio) : trade'.portfolio[k][1] # t) =>
                /\ t \in DOMAIN positions'
                /\ positions'[t].quantity = positions[t].quantity
                /\ positions'[t].entry_price = positions[t].entry_price
                /\ entry_prices'[t] = entry_prices[t]
                /\ \A i \in (Len(transaction_log) + 1)..Len(transaction_log') :
                      transaction_log'[i].Ticker # t
    ]_vars

\* C36 witness: an execute_portfolio whose only target is another ticker has
\* bought it while the ticker held before, no target, is still held
C36_Witness ==
    /\ trade.op = "execute_portfolio"
    /\ trade.outcome = "done"
    /\ Len(trade.portfolio) = 1
    /\ \E t \in DOMAIN positions :
          /\ t # trade.portfolio[1][1]
          /\ positions[t].quantity > 0
          /\ \E i \in Appended :
                /\ transaction_log[i].Ticker = trade.portfolio[1][1]
                /\ transaction_log[i].Action = "BUY"
          /\ \E i \in 1..trade.log0 : transaction_log[i].Ticker = t

====
